---------------------------- MODULE Spec2Model ----------------------------
(***************************************************************************)
(* RekordKaraoke track resolution engine.                                  *)
(*                                                                         *)
(* Part I   Resolver / Library / Store: the resolution pipeline with its  *)
(*          per-key in-flight token map (server/lyrics/resolver.js).       *)
(* Part II  parseOscMessage: the OSC datagram decoder, as a pure function  *)
(*          over byte sequences (server/link-bridge.js).                   *)
(* Part III LinkBridge: dispatch of decoded messages and the debounced     *)
(*          track-change detector (server/link-bridge.js).                 *)
(*                                                                         *)
(* JavaScript runs each continuation (the code between two awaits) to      *)
(* completion, so every action below is one continuation.                  *)
(***************************************************************************)
EXTENDS Integers, Sequences, FiniteSets, TLC

(***************************************************************************)
(* Bounds                                                                  *)
(***************************************************************************)
MaxCalls == 2        \* resolve() calls issued in one behaviour
NumProviders == 2    \* length of Resolver.providers
MaxFaults == 1       \* injected file-system failures (disk full, EACCES)

(***************************************************************************)
(* Part I: Resolver                                                        *)
(***************************************************************************)
VARIABLES
  index,            \* Library.index: key -> entry | NoEntry
  pendingRequests,  \* Resolver.pendingRequests: key -> call owning the promise | None
  prom,             \* the promise returned by _doResolve of call c
  pc,               \* where call c is suspended
  track,            \* artist/title argument of call c
  opts,             \* options argument of call c
  ei,               \* checkLocalFiles: position in the formats list
  pi,               \* _doResolve: position in the providers list
  src,              \* "local" | "provider": which path called store.save
  waitOn,           \* for a call that found a token: the call whose promise it returned
  result,           \* what resolve() of call c settled with
  snap,             \* JSON.stringify(index) taken by writeJsonAtomic of call c
  rawFiles,         \* files present in the raw directory: <<track, ext>>
  jsonFiles,        \* derived JSON documents present: track -> format | None
  indexTmp,         \* content of the shared temporary file of the index
  indexFile,        \* content of the index file
  faults,           \* injected failures so far
  failed,           \* history: the calls one of whose writes was rejected
  log               \* history: sources call c has consulted so far, with the
                    \* outcome of each (kept while the call runs)

rvars == <<index, pendingRequests, prom, pc, track, opts, ei, pi, src, waitOn,
           result, snap, rawFiles, jsonFiles, indexTmp, indexFile, faults,
           failed, log>>

\* Part II: the decoder
VARIABLES
  oscIn,     \* the datagram handed to parseOscMessage
  oscOut     \* what parseOscMessage returned, or that it threw

ovars == <<oscIn, oscOut>>

\* Part III: the bridge
VARIABLES
  bridge,     \* state.master, lastTrackKey and trackChangeTimer
  out,        \* the events emitted by the last step
  lastIn,     \* the datagram of the last step and what its handler did
  lastEvent,  \* the payload of the last trackChanged event
  lastFire,   \* what the timer callback of the last step saw and did
  burst,      \* the updates received since the last confirmed track
  since,      \* ticks since the last update that left a key not yet confirmed
  debounce      \* the ticks left of the pending debounce, in order of creation

bvars == <<bridge, out, lastIn, lastEvent, lastFire, burst, since, debounce>>

\* Part V: normalize
VARIABLES
  normIn,    \* the string handed to normalize
  normOut    \* the results of normalize applied once, then to its own result

nvars == <<normIn, normOut>>

\* Part VI: the file operations of Store.save and writeJsonAtomic
VARIABLES
  spc,       \* where the persistence of saver w is suspended
  files,     \* the file system: path -> content
  ino,       \* the path at which the file saver w has open for writing lives
  libIndex,  \* Library.index as the set of its keys
  ssnap      \* JSON.stringify(this.index) evaluated by saver w

svars == <<spc, files, ino, libIndex, ssnap>>

\* Part VII: LrclibProvider.search under one resolve() call
VARIABLES
  ppc,           \* where search / _doSearch / the resolver is suspended
  attempt,       \* 1: the search as given, 2: the cleaned fallback search
  timers,        \* the attempts whose setTimeout is still armed
  clock,         \* ticks since _doSearch of the attempt armed its timer
  ret,           \* what search returned (or that it rejected)
  cleanDiffers,  \* cleanForSearch changes the artist or the title
  lastFail,      \* history: how the last remote call failed, or "none"
  token,         \* pendingRequests has the key of this call
  resolved       \* what resolve() settled with

pvars == <<ppc, attempt, timers, clock, ret, cleanDiffers, lastFail, token,
           resolved>>

\* Part VIII: the server's trackChanged handler
VARIABLES
  hpc,           \* where the handler of event e is suspended
  lyr,           \* the promise of resolver.resolve called by the handler of e
  cov,           \* the promise of coverProvider.getCover(...).catch(...)
  lyricsStatus,  \* currentState.lyricsStatus
  coverUrl,      \* currentState.coverUrl
  sent,          \* history: the messages broadcast, with the event they belong to
  lyrics,        \* currentState.lyrics: the event whose document it holds, NoLyrics for null
  hfail          \* history: how the resolution of event e failed, or "none"

hvars == <<hpc, lyr, cov, lyricsStatus, coverUrl, sent, lyrics, hfail>>

\* Part IX: the timed-text parsers
VARIABLES
  docIn,     \* the call: format, content, duration hint, and who calls
  docOut     \* the document returned, with the lines as they were before the
             \* offset correction

tvars == <<docIn, docOut>>

\* Part X: parseTimestamp of the two parsers
VARIABLES
  tsIn,      \* the time code: which parser, its numbers, its text
  tsOut      \* the time returned, in ms

zvars == <<tsIn, tsOut>>

\* Part XI: the Library singleton of getLibrary
VARIABLES
  instance,  \* the module's `instance`: FALSE for null, TRUE for a Library
  loaded,    \* instance.loaded
  held,      \* instance.index: the keys it holds
  disk,      \* the Index file that load() reads
  gpc,       \* where caller c of getLibrary is
  handed     \* what caller c received: the Library as it was when returned

gvars == <<instance, loaded, held, disk, gpc, handed>>

\* Part XII: CoverProvider.getCover
VARIABLES
  cpc,       \* where call c of getCover is
  cfile,     \* filename of call c
  task,      \* the task created by call c: "none", running, or how it ended
  joined,    \* the call whose task call c awaits
  cres,      \* what call c returned
  inFlight,  \* this._inFlight: filename -> the call that created the task
  onDisk,    \* the cover files that exist (and are large enough)
  along      \* history: the calls for the same filename in progress when c was made

cvars == <<cpc, cfile, task, joined, cres, inFlight, onDisk, along>>

\* Part XIII: CoverProvider._mbFetch
VARIABLES
  mpc,       \* where call c of _mbFetch is
  mclock,    \* Date.now(), in ms
  mbNextAt,  \* this._mbNextAt
  wake,      \* when the sleep of call c ends
  issued     \* history: when call c issued its fetch, NotYet before

mvars == <<mpc, mclock, mbNextAt, wake, issued>>

\* What each part leaves alone.
ResolverIdle == UNCHANGED rvars
DecoderIdle == UNCHANGED ovars
BridgeIdle == UNCHANGED bvars
NormalizeIdle == UNCHANGED nvars
StorageIdle == UNCHANGED svars
ProviderIdle == UNCHANGED pvars
ServerIdle == UNCHANGED hvars
ParserIdle == UNCHANGED tvars
StampsIdle == UNCHANGED zvars
SingletonIdle == UNCHANGED gvars
CoverIdle == UNCHANGED cvars
FetchIdle == UNCHANGED mvars

\* A step of one part only.
OnlyResolver == DecoderIdle /\ BridgeIdle /\ NormalizeIdle /\ StorageIdle /\ ProviderIdle /\ ServerIdle /\ ParserIdle /\ StampsIdle /\ SingletonIdle /\ CoverIdle /\ FetchIdle
OnlyDecoder == ResolverIdle /\ BridgeIdle /\ NormalizeIdle /\ StorageIdle /\ ProviderIdle /\ ServerIdle /\ ParserIdle /\ StampsIdle /\ SingletonIdle /\ CoverIdle /\ FetchIdle
OnlyBridge == ResolverIdle /\ DecoderIdle /\ NormalizeIdle /\ StorageIdle /\ ProviderIdle /\ ServerIdle /\ ParserIdle /\ StampsIdle /\ SingletonIdle /\ CoverIdle /\ FetchIdle
OnlyNormalize == ResolverIdle /\ DecoderIdle /\ BridgeIdle /\ StorageIdle /\ ProviderIdle /\ ServerIdle /\ ParserIdle /\ StampsIdle /\ SingletonIdle /\ CoverIdle /\ FetchIdle
OnlyStorage == ResolverIdle /\ DecoderIdle /\ BridgeIdle /\ NormalizeIdle /\ ProviderIdle /\ ServerIdle /\ ParserIdle /\ StampsIdle /\ SingletonIdle /\ CoverIdle /\ FetchIdle
OnlyProvider == ResolverIdle /\ DecoderIdle /\ BridgeIdle /\ NormalizeIdle /\ StorageIdle /\ ServerIdle /\ ParserIdle /\ StampsIdle /\ SingletonIdle /\ CoverIdle /\ FetchIdle
OnlyServer == ResolverIdle /\ DecoderIdle /\ BridgeIdle /\ NormalizeIdle /\ StorageIdle /\ ProviderIdle /\ ParserIdle /\ StampsIdle /\ SingletonIdle /\ CoverIdle /\ FetchIdle
OnlyParser == ResolverIdle /\ DecoderIdle /\ BridgeIdle /\ NormalizeIdle /\ StorageIdle /\ ProviderIdle /\ ServerIdle /\ StampsIdle /\ SingletonIdle /\ CoverIdle /\ FetchIdle
OnlyStamps == ResolverIdle /\ DecoderIdle /\ BridgeIdle /\ NormalizeIdle /\ StorageIdle /\ ProviderIdle /\ ServerIdle /\ ParserIdle /\ SingletonIdle /\ CoverIdle /\ FetchIdle
OnlySingleton == ResolverIdle /\ DecoderIdle /\ BridgeIdle /\ NormalizeIdle /\ StorageIdle /\ ProviderIdle /\ ServerIdle /\ ParserIdle /\ StampsIdle /\ CoverIdle /\ FetchIdle
OnlyCover == ResolverIdle /\ DecoderIdle /\ BridgeIdle /\ NormalizeIdle /\ StorageIdle /\ ProviderIdle /\ ServerIdle /\ ParserIdle /\ StampsIdle /\ SingletonIdle /\ FetchIdle
OnlyFetch == ResolverIdle /\ DecoderIdle /\ BridgeIdle /\ NormalizeIdle /\ StorageIdle /\ ProviderIdle /\ ServerIdle /\ ParserIdle /\ StampsIdle /\ SingletonIdle /\ CoverIdle

Calls == 1..MaxCalls
Tracks == {"t1", "t2", "t3"}
Keys == {"k1", "k2"}
None == "none"
\* pendingRequests.get(key): the token map holds at most one promise per key,
\* named by the call that created it.
NoPromise == {}
NoEntry == [kind |-> "absent"]
Pending == [kind |-> "pending"]
NullResult == [kind |-> "null"]
ErrorResult == [kind |-> "error"]
Absent == [kind |-> "absent"]
File(data) == [kind |-> "file", data |-> data]

\* makeKey: normalisation is not injective ("Artist (Remix)" and "Artist"
\* give one key): t1 and t2 share k1.
KeyOf(t) == IF t = "t3" THEN "k2" ELSE "k1"

\* parsers.getSupportedFormats()
Formats == <<".lrc", ".srt">>

\* Resolver.providers, in configured order
Providers == [i \in 1..NumProviders |-> [name |-> "provider", n |-> i]]
LocalName == [name |-> "local", n |-> 0]

OptionSets == [skipLocal : BOOLEAN, skipProviders : BOOLEAN]
DefaultOptions == [skipLocal |-> FALSE, skipProviders |-> FALSE]

\* Library.find
Find(t) == index[KeyOf(t)]

Entry(t, provider, format) ==
  [kind |-> "entry", track |-> t, provider |-> provider, format |-> format]

Active(c) == pc[c] \notin {"idle", "done"}

\* The call is inside _doResolve (its promise is not settled yet).
InDoResolve(c) ==
  pc[c] \in {"access", "read", "saveRaw", "saveJson", "libMkdir", "libWrite",
             "libRename", "search"}

CanFault == faults < MaxFaults

Logged(c, kind, n, hit) ==
  log' = [log EXCEPT ![c] = Append(@, [s |-> kind, n |-> n, hit |-> hit])]


\* Control state of call c after one continuation.
Ctl(c, p, e, i, pr) ==
  /\ pc' = [pc EXCEPT ![c] = p]
  /\ ei' = [ei EXCEPT ![c] = e]
  /\ pi' = [pi EXCEPT ![c] = i]
  /\ prom' = [prom EXCEPT ![c] = pr]

\* _doResolve returns or throws: its promise settles with pr (the locals of the
\* finished function are dropped).
Settle(c, pr) == Ctl(c, "settled", 1, 1, pr)

\* _doResolve after checkLocalFiles returned null (or was skipped): the provider
\* loop starts, or the function returns null.
AfterLocalMutant(c, o) ==
  IF NumProviders >= 1
    THEN Ctl(c, "search", ei[c], 1, Pending)
    ELSE Settle(c, NullResult)
AfterLocal(c, o) ==
  IF ~o.skipProviders /\ NumProviders >= 1
    THEN Ctl(c, "search", ei[c], 1, Pending)
    ELSE Settle(c, NullResult)

\* checkLocalFiles: the catch block swallows whatever the try block threw and
\* the loop goes on with the next extension.
ContinueLocal(c) ==
  IF ei[c] < Len(Formats)
    THEN Ctl(c, "access", ei[c] + 1, pi[c], Pending)
    ELSE AfterLocal(c, opts[c])

\* An operation of store.save or library.add threw.  Inside checkLocalFiles the
\* catch block takes it; in the provider loop it rejects _doResolve's promise.
Throw(c) ==
  IF src[c] = "local"
    THEN ContinueLocal(c)
    ELSE Settle(c, ErrorResult)

\* The bookkeeping of issuing call c (history only).
Issue(c, t, o) ==
  /\ pc[c] = "idle"
  /\ \A d \in Calls : d < c => pc[d] # "idle"
  /\ track' = [track EXCEPT ![c] = t]
  /\ opts' = [opts EXCEPT ![c] = o]

\* resolve(): the Index lookup hits and the cached entry is returned.
ResolveHit(c, t, o) ==
  /\ Issue(c, t, o)
  /\ ~o.skipLocal
  /\ Find(t) # NoEntry
  /\ pc' = [pc EXCEPT ![c] = "done"]
  /\ result' = [result EXCEPT ![c] = Find(t)]
  /\ UNCHANGED <<index, pendingRequests, prom, ei, pi, src, waitOn, snap,
                 rawFiles, jsonFiles, indexTmp, indexFile, faults, failed, log>>

\* Whether resolve() gets past the Index lookup.
PastIndex(t, o) == o.skipLocal \/ Find(t) = NoEntry

LogIndexMiss(c, o) ==
  IF o.skipLocal THEN UNCHANGED log ELSE Logged(c, "index", 0, FALSE)

\* resolve(): a token exists for the key; its promise is returned.
ResolveWait(c, t, o) ==
  /\ Issue(c, t, o)
  /\ PastIndex(t, o)
  /\ pendingRequests[KeyOf(t)] # NoPromise
  /\ pc' = [pc EXCEPT ![c] = "waiting"]
  /\ waitOn' = [waitOn EXCEPT ![c] = CHOOSE d \in pendingRequests[KeyOf(t)] : TRUE]
  /\ LogIndexMiss(c, o)
  /\ UNCHANGED <<index, pendingRequests, prom, ei, pi, src, result, snap,
                 rawFiles, jsonFiles, indexTmp, indexFile, faults, failed>>

\* The guard of the branch that starts a resolution.
NoTokenMutant(k) == TRUE
NoToken(k) == pendingRequests[k] = NoPromise

\* resolve(): no token.  _doResolve runs up to its first await (the first
\* fs.access, the first provider.search, or its return) and the promise is
\* stored under the key.
ResolveStart(c, t, o) ==
  /\ Issue(c, t, o)
  /\ PastIndex(t, o)
  /\ NoToken(KeyOf(t))
  /\ IF ~o.skipLocal
       THEN Ctl(c, "access", 1, pi[c], Pending)
       ELSE AfterLocal(c, o)
  /\ src' = [src EXCEPT ![c] = "local"]
  /\ pendingRequests' = [pendingRequests EXCEPT ![KeyOf(t)] = {c}]
  /\ LogIndexMiss(c, o)
  /\ UNCHANGED <<index, waitOn, result, snap, rawFiles, jsonFiles, indexTmp,
                 indexFile, faults, failed>>

\* checkLocalFiles: fs.access succeeds; readFile is issued.
AccessHit(c) ==
  /\ pc[c] = "access"
  /\ <<track[c], Formats[ei[c]]>> \in rawFiles
  /\ Ctl(c, "read", ei[c], pi[c], Pending)
  /\ Logged(c, "file", ei[c], TRUE)
  /\ UNCHANGED <<index, pendingRequests, track, opts, src, waitOn, result, snap,
                 rawFiles, jsonFiles, indexTmp, indexFile, faults, failed>>

\* checkLocalFiles: fs.access rejects (no such file); next extension.
AccessMiss(c) ==
  /\ pc[c] = "access"
  /\ <<track[c], Formats[ei[c]]>> \notin rawFiles
  /\ ContinueLocal(c)
  /\ Logged(c, "file", ei[c], FALSE)
  /\ UNCHANGED <<index, pendingRequests, track, opts, src, waitOn, result, snap,
                 rawFiles, jsonFiles, indexTmp, indexFile, faults, failed>>

\* checkLocalFiles: readFile resolves; store.save is called and issues the
\* write of the raw file.
ReadOk(c) ==
  /\ pc[c] = "read"
  /\ Ctl(c, "saveRaw", ei[c], pi[c], Pending)
  /\ UNCHANGED <<index, pendingRequests, track, opts, src, waitOn, result, snap,
                 rawFiles, jsonFiles, indexTmp, indexFile, faults, failed, log>>

\* The format store.save was called with.
SaveFormat(c) == IF src[c] = "local" THEN Formats[ei[c]] ELSE "lrc"

\* store.save: rawExt
RawExt(format) == IF format \in {".lrc", ".srt"} THEN format
                  ELSE IF format = "lrc" THEN ".lrc" ELSE ".srt"

\* store.save: the raw file is written; the content is parsed and
\* writeJsonAtomic is called for the derived JSON document.
SaveRawOk(c) ==
  /\ pc[c] = "saveRaw"
  /\ rawFiles' = rawFiles \cup {<<track[c], RawExt(SaveFormat(c))>>}
  /\ Ctl(c, "saveJson", ei[c], pi[c], Pending)
  /\ UNCHANGED <<index, pendingRequests, track, opts, src, waitOn, result, snap,
                 jsonFiles, indexTmp, indexFile, faults, failed, log>>

\* The name the hit is recorded under in the entry.
ProviderName(c) == IF src[c] = "local" THEN LocalName ELSE Providers[pi[c]]

\* Library.add, up to its await: the entry is put into the in-memory index and
\* save() -> writeJsonAtomic issues its mkdir.
LibraryAdd(c) ==
  index' = [index EXCEPT ![KeyOf(track[c])] =
              Entry(track[c], ProviderName(c), SaveFormat(c))]

\* store.save: the JSON document is in place; store.save returns and
\* library.add is called.
SaveJsonOk(c) ==
  /\ pc[c] = "saveJson"
  /\ jsonFiles' = [jsonFiles EXCEPT ![track[c]] = SaveFormat(c)]
  /\ LibraryAdd(c)
  /\ Ctl(c, "libMkdir", ei[c], pi[c], Pending)
  /\ UNCHANGED <<pendingRequests, track, opts, src, waitOn, result, snap,
                 rawFiles, indexTmp, indexFile, faults, failed, log>>

\* writeJsonAtomic(libraryPath, index): mkdir resolved; JSON.stringify(index)
\* is evaluated and the write of the temporary file is issued.
LibMkdirOk(c) ==
  /\ pc[c] = "libMkdir"
  /\ snap' = [snap EXCEPT ![c] = index]
  /\ Ctl(c, "libWrite", ei[c], pi[c], Pending)
  /\ UNCHANGED <<index, pendingRequests, track, opts, src, waitOn, result,
                 rawFiles, jsonFiles, indexTmp, indexFile, faults, failed, log>>

\* writeJsonAtomic: the temporary file (one path for all saves of the index)
\* holds the serialisation; rename is issued.
LibWriteOk(c) ==
  /\ pc[c] = "libWrite"
  /\ indexTmp' = File(snap[c])
  /\ Ctl(c, "libRename", ei[c], pi[c], Pending)
  /\ UNCHANGED <<index, pendingRequests, track, opts, src, waitOn, result, snap,
                 rawFiles, jsonFiles, indexFile, faults, failed, log>>

\* writeJsonAtomic: rename moved the temporary file over the index file;
\* library.add returns and the caller returns library.find(artist, title).
LibRenameOk(c) ==
  /\ pc[c] = "libRename"
  /\ indexTmp # Absent
  /\ indexFile' = indexTmp
  /\ indexTmp' = Absent
  /\ Settle(c, Find(track[c]))
  /\ UNCHANGED <<index, pendingRequests, track, opts, src, waitOn, result, snap,
                 rawFiles, jsonFiles, faults, failed, log>>

\* writeJsonAtomic: rename finds no temporary file (another save of the index
\* renamed it away) and rejects with ENOENT.
LibRenameGone(c) ==
  /\ pc[c] = "libRename"
  /\ indexTmp = Absent
  /\ Throw(c)
  /\ failed' = failed \cup {c}
  /\ UNCHANGED <<index, pendingRequests, track, opts, src, waitOn, result, snap,
                 rawFiles, jsonFiles, indexTmp, indexFile, faults, log>>

\* A file-system operation of the persistence path rejects (disk full,
\* permission): readFile, the raw write, the JSON write, mkdir, the write of
\* the temporary file, or rename.
FsFault(c) ==
  /\ pc[c] \in {"read", "saveRaw", "saveJson", "libMkdir", "libWrite", "libRename"}
  /\ CanFault
  /\ faults' = faults + 1
  /\ failed' = IF pc[c] = "read" THEN failed ELSE failed \cup {c}
  /\ Throw(c)
  /\ UNCHANGED <<index, pendingRequests, track, opts, src, waitOn, result, snap,
                 rawFiles, jsonFiles, indexTmp, indexFile, log>>

\* _doResolve: provider.search returned a result; store.save is called.
SearchHit(c) ==
  /\ pc[c] = "search"
  /\ src' = [src EXCEPT ![c] = "provider"]
  /\ Ctl(c, "saveRaw", ei[c], pi[c], Pending)
  /\ Logged(c, "provider", pi[c], TRUE)
  /\ UNCHANGED <<index, pendingRequests, track, opts, waitOn, result, snap,
                 rawFiles, jsonFiles, indexTmp, indexFile, faults, failed>>

\* _doResolve after the last provider returned null: "Not found", return null.
NotFoundMutant(c) ==
  /\ Settle(c, NullResult)
  /\ index' = [index EXCEPT ![KeyOf(track[c])] = Entry(track[c], LocalName, "none")]
NotFound(c) ==
  /\ Settle(c, NullResult)
  /\ UNCHANGED index

\* _doResolve: provider.search returned null; the next provider is asked, or
\* null is returned.
SearchMiss(c) ==
  /\ pc[c] = "search"
  /\ IF pi[c] < NumProviders
       THEN Ctl(c, "search", ei[c], pi[c] + 1, Pending) /\ UNCHANGED index
       ELSE NotFound(c)
  /\ Logged(c, "provider", pi[c], FALSE)
  /\ UNCHANGED <<pendingRequests, track, opts, src, waitOn, result, snap,
                 rawFiles, jsonFiles, indexTmp, indexFile, faults, failed>>

\* resolve(): the finally block.
ReleaseTokenMutant(c) ==
  IF prom[c] = ErrorResult
    THEN UNCHANGED pendingRequests
    ELSE pendingRequests' = [pendingRequests EXCEPT ![KeyOf(track[c])] = NoPromise]
ReleaseToken(c) ==
  pendingRequests' = [pendingRequests EXCEPT ![KeyOf(track[c])] = NoPromise]

\* resolve() of the call that started the resolution: `await requestPromise`
\* resumes, the finally block deletes the token, the outcome is passed on.
Finally(c) ==
  /\ pc[c] = "settled"
  /\ ReleaseToken(c)
  /\ pc' = [pc EXCEPT ![c] = "done"]
  /\ result' = [result EXCEPT ![c] = prom[c]]
  /\ src' = [src EXCEPT ![c] = "local"]
  /\ snap' = [snap EXCEPT ![c] = [k \in Keys |-> NoEntry]]
  /\ log' = [log EXCEPT ![c] = <<>>]
  /\ UNCHANGED <<index, prom, track, opts, ei, pi, waitOn, rawFiles,
                 jsonFiles, indexTmp, indexFile, faults, failed>>

\* What a call that returned another call's promise settles with.
SharedOutcomeMutant(c) == IF Find(track[c]) = NoEntry THEN NullResult ELSE Find(track[c])
SharedOutcome(c) == prom[waitOn[c]]

\* resolve() of a call that returned the stored promise: it settles as that
\* promise does.
WaitDone(c) ==
  /\ pc[c] = "waiting"
  /\ prom[waitOn[c]] # Pending
  /\ pc' = [pc EXCEPT ![c] = "done"]
  /\ result' = [result EXCEPT ![c] = SharedOutcome(c)]
  /\ log' = [log EXCEPT ![c] = <<>>]
  /\ UNCHANGED <<index, pendingRequests, prom, track, opts, ei, pi, src, waitOn,
                 snap, rawFiles, jsonFiles, indexTmp, indexFile, faults, failed>>

\* Files the user staged in the raw directory before the run.
StagedChoices == SUBSET {<<"t1", ".srt">>}

RInit ==
  /\ index = [k \in Keys |-> NoEntry]
  /\ pendingRequests = [k \in Keys |-> NoPromise]
  /\ prom = [c \in Calls |-> Pending]
  /\ pc = [c \in Calls |-> "idle"]
  /\ track = [c \in Calls |-> "t1"]
  /\ opts = [c \in Calls |-> DefaultOptions]
  /\ ei = [c \in Calls |-> 1]
  /\ pi = [c \in Calls |-> 1]
  /\ src = [c \in Calls |-> "local"]
  /\ waitOn = [c \in Calls |-> c]
  /\ result = [c \in Calls |-> Pending]
  /\ snap = [c \in Calls |-> [k \in Keys |-> NoEntry]]
  /\ rawFiles \in StagedChoices
  /\ jsonFiles = [t \in Tracks |-> None]
  /\ indexTmp = Absent
  /\ indexFile = Absent
  /\ faults = 0
  /\ failed = {}
  /\ log = [c \in Calls |-> <<>>]

\* The callers of resolve() in the server (index.js, the trackChanged handler)
\* pass no options.
CallOptions == {DefaultOptions}

RNext ==
  \/ \E c \in Calls, t \in Tracks, o \in CallOptions : ResolveHit(c, t, o) /\ OnlyResolver
  \/ \E c \in Calls, t \in Tracks, o \in CallOptions : ResolveWait(c, t, o) /\ OnlyResolver
  \/ \E c \in Calls, t \in Tracks, o \in CallOptions : ResolveStart(c, t, o) /\ OnlyResolver
  \/ \E c \in Calls : AccessHit(c) /\ OnlyResolver
  \/ \E c \in Calls : AccessMiss(c) /\ OnlyResolver
  \/ \E c \in Calls : ReadOk(c) /\ OnlyResolver
  \/ \E c \in Calls : SaveRawOk(c) /\ OnlyResolver
  \/ \E c \in Calls : SaveJsonOk(c) /\ OnlyResolver
  \/ \E c \in Calls : LibMkdirOk(c) /\ OnlyResolver
  \/ \E c \in Calls : LibWriteOk(c) /\ OnlyResolver
  \/ \E c \in Calls : LibRenameOk(c) /\ OnlyResolver
  \/ \E c \in Calls : LibRenameGone(c) /\ OnlyResolver
  \/ \E c \in Calls : FsFault(c) /\ OnlyResolver
  \/ \E c \in Calls : SearchHit(c) /\ OnlyResolver
  \/ \E c \in Calls : SearchMiss(c) /\ OnlyResolver
  \/ \E c \in Calls : Finally(c) /\ OnlyResolver
  \/ \E c \in Calls : WaitDone(c) /\ OnlyResolver

(***************************************************************************)
(* Part II: parseOscMessage                                                *)
(*                                                                         *)
(* A buffer is a sequence of bytes; offsets are 0-based as in the code.    *)
(* Strings are sequences of character codes (ASCII, where one byte is one  *)
(* character of buffer.toString('utf8')).                                  *)
(***************************************************************************)
NUL == 0
Comma == 44      \* 0x2C
TagF == 102      \* 'f'
TagI == 105      \* 'i'
TagS == 115      \* 's'
TagX == 120      \* 'x': a tag the decoder does not know
Colon == 58

MinOf(S) == CHOOSE x \in S : \A y \in S : x <= y

\* buffer.indexOf(0, from): -1 when there is none (also when from is past the end)
IndexOfNul(buf, from) ==
  LET S == {i \in from..(Len(buf) - 1) : buf[i + 1] = NUL}
  IN IF S = {} THEN -1 ELSE MinOf(S)

\* Math.ceil(n / 4) * 4
Ceil4Mutant(n) == n
Ceil4(n) == ((n + 3) \div 4) * 4

\* buffer.toString('utf8', from, to): empty when from >= to
Slice(buf, from, to) ==
  LET e == IF to > Len(buf) THEN Len(buf) ELSE to
  IN IF from >= e THEN <<>> ELSE [i \in 1..(e - from) |-> buf[from + i]]

\* JavaScript values: strings, and the numbers readFloatBE and readInt32BE give.
\* A float32 is identified by its four bytes.
StrVal(chars) == [t |-> "s", v |-> chars]
FloatVal(b) == [t |-> "f", v |-> b]
IntVal(n) == [t |-> "i", v |-> n]

\* buffer.readInt32BE
ReadInt32BE(b) ==
  LET hi == IF b[1] >= 128 THEN b[1] - 256 ELSE b[1]   \* two's complement
  IN IntVal(((hi * 256 + b[2]) * 256 + b[3]) * 256 + b[4])

\* buffer.readFloatBE
ReadFloatBE(b) == FloatVal(b)

\* The default branch of the switch: the offset after an unknown tag.
SkipUnknownMutant(offset) == offset + 4
SkipUnknown(offset) == offset

\* The loop over the type tags.  readFloatBE and readInt32BE throw a RangeError
\* when fewer than 4 bytes are left at the offset.
RECURSIVE ParseArgs(_, _, _, _, _)
ParseArgs(buf, tags, i, offset, args) ==
  IF i > Len(tags) THEN [kind |-> "args", args |-> args]
  ELSE IF tags[i] = TagF \/ tags[i] = TagI
    THEN IF offset + 4 > Len(buf)
           THEN [kind |-> "throw"]
           ELSE LET b == Slice(buf, offset, offset + 4)
                    x == IF tags[i] = TagF THEN ReadFloatBE(b) ELSE ReadInt32BE(b)
                IN ParseArgs(buf, tags, i + 1, offset + 4, Append(args, x))
  ELSE IF tags[i] = TagS
    THEN LET found == IndexOfNul(buf, offset)
             strEnd == IF found = -1 THEN Len(buf) ELSE found
         IN ParseArgs(buf, tags, i + 1, Ceil4(strEnd + 1),
                      Append(args, StrVal(Slice(buf, offset, strEnd))))
  ELSE ParseArgs(buf, tags, i + 1, SkipUnknown(offset), args)

OscNull == [kind |-> "null"]
OscThrow == [kind |-> "throw"]

parseOscMessage(buf) ==
  LET addressEnd == IndexOfNul(buf, 0)
      offset1 == Ceil4(addressEnd + 1)
      typeTagEnd == IndexOfNul(buf, offset1)
      offset2 == Ceil4(typeTagEnd + 1)
  IN IF addressEnd = -1 THEN OscNull
     ELSE IF offset1 >= Len(buf) \/ buf[offset1 + 1] # Comma THEN OscNull
     ELSE IF typeTagEnd = -1 THEN OscNull
     ELSE LET r == ParseArgs(buf, Slice(buf, offset1 + 1, typeTagEnd), 1, offset2, <<>>)
          IN IF r.kind = "throw" THEN OscThrow
             ELSE [kind |-> "msg", address |-> Slice(buf, 0, addressEnd), args |-> r.args]

\* The sender's side of the wire format (scripts/prefetch.js): a string, its
\* terminator and zero padding to a multiple of 4 bytes.
Zeros(n) == [i \in 1..n |-> NUL]
encodeOscString(chars) ==
  chars \o <<NUL>> \o Zeros((4 - ((Len(chars) + 1) % 4)) % 4)

\* The bytes of one argument: 4 bytes of a number, or an encoded string.
Int32Bytes(n) ==
  LET u == IF n < 0 THEN (n + 2147483647) + 1 ELSE n   \* the low 31 bits
      top == IF n < 0 THEN 128 ELSE 0
  IN <<top + u \div 16777216, (u \div 65536) % 256, (u \div 256) % 256, u % 256>>

\* A number the sender holds: a double that is no float32, identified by the
\* bytes of the float32 nearest to it.
DoubleVal(b) == [t |-> "d", v |-> b]

\* Math.fround: the float32 a number is rounded to by writeFloatBE
Fround(x) == IF x.t = "d" THEN FloatVal(x.v) ELSE x

\* encodeOscFloat: the 4 bytes of the float32 nearest to the number
encodeOscFloat(x) == Fround(x).v

EncodeArg(x) == IF x.t = "s" THEN encodeOscString(x.v)
                ELSE IF x.t = "f" \/ x.t = "d" THEN encodeOscFloat(x)
                ELSE Int32Bytes(x.v)

RECURSIVE EncodeArgs(_)
EncodeArgs(args) ==
  IF args = <<>> THEN <<>> ELSE EncodeArg(Head(args)) \o EncodeArgs(Tail(args))

\* sendOsc: address, ',' and the tags, then the arguments of the tags that
\* carry data.
Encode(m) ==
  encodeOscString(m.address) \o encodeOscString(<<Comma>> \o m.tags) \o EncodeArgs(m.args)

Take(buf, n) == Slice(buf, 0, n)

AddrTitle == <<47, 116, 114, 97, 99, 107, 47, 109, 97, 115, 116, 101, 114, 47, 116, 105, 116, 108, 101>>   \* "/track/master/title"
AddrArtist == <<47, 116, 114, 97, 99, 107, 47, 109, 97, 115, 116, 101, 114, 47, 97, 114, 116, 105, 115, 116>>   \* "/track/master/artist"
AddrTime == <<47, 116, 105, 109, 101, 47, 109, 97, 115, 116, 101, 114>>   \* "/time/master"
AddrBpm == <<47, 98, 112, 109, 47, 109, 97, 115, 116, 101, 114, 47, 99, 117, 114, 114, 101, 110, 116>>   \* "/bpm/master/current"
AddrBeat == <<47, 98, 101, 97, 116, 47, 109, 97, 115, 116, 101, 114>>   \* "/beat/master"
AddrOther == <<47, 100, 101, 99, 107, 47, 49>>   \* "/deck/1": an address the bridge does not know

F128 == FloatVal(<<67, 0, 0, 0>>)       \* 128.0

\* The values an argument of tag g takes in the decoder's inputs.
ArgValues(g) ==
  IF g = TagF THEN {F128}
  ELSE IF g = TagI THEN {IntVal(-2)}
  ELSE IF g = TagS THEN {StrVal(<<>>), StrVal(<<97, 98>>), StrVal(<<97, 98, 99>>)}
  ELSE {}

KnownTags == {TagF, TagI, TagS}
MaxTags == 3

TagStrings == UNION {[1..n -> {TagF, TagI, TagS, TagX}] : n \in 0..MaxTags}

\* The argument lists that fit a tag string: one value per tag that carries data.
RECURSIVE ArgLists(_)
ArgLists(tags) ==
  IF tags = <<>> THEN {<<>>}
  ELSE IF Head(tags) \in KnownTags
    THEN {<<v>> \o r : v \in ArgValues(Head(tags)), r \in ArgLists(Tail(tags))}
    ELSE ArgLists(Tail(tags))

Msg(address, tags, args) == [address |-> address, tags |-> tags, args |-> args]

\* A message as encoded by the sender, cut after `cut` bytes.
Cuts(m) == {[msg |-> m, cut |-> n] : n \in 0..Len(Encode(m))}
Whole(m) == [msg |-> m, cut |-> Len(Encode(m))]

Datagram(d) == Take(Encode(d.msg), d.cut)
Complete(d) == d.cut = Len(Encode(d.msg))

NoDatagram == [msg |-> [address |-> <<>>, tags |-> <<>>, args |-> <<>>], cut |-> 0]
NotDecoded == [kind |-> "none"]

\* Any message of the tag strings, whole or cut short, is handed to the decoder.
OInit ==
  /\ \E g \in TagStrings : \E x \in ArgLists(g) : oscIn \in Cuts(Msg(AddrBpm, g, x))
  /\ oscOut = NotDecoded

OIdle ==
  /\ oscIn = NoDatagram
  /\ oscOut = NotDecoded

\* parseOscMessage is applied to the datagram.
Decode ==
  /\ oscOut = NotDecoded
  /\ oscOut' = parseOscMessage(Datagram(oscIn))
  /\ UNCHANGED oscIn

(***************************************************************************)
(* Part III: LinkBridge                                                    *)
(*                                                                         *)
(* Time advances in ticks; the debounce delay of checkTrackChange is       *)
(* TicksPerDebounce ticks.                                                 *)
(***************************************************************************)
TicksPerDebounce == 2

Undefined == [t |-> "u", v |-> <<>>]
EmptyString == StrVal(<<>>)
Zero == IntVal(0)

\* args[0]
FirstArg(args) == IF Len(args) = 0 THEN Undefined ELSE args[1]

\* typeof x === 'number'
IsNumber(x) == x.t = "f" \/ x.t = "i"

\* Is the float32 of these bytes 0, -0 or NaN?
FalsyFloat(b) ==
  \/ b[1] % 128 = 0 /\ b[2] = 0 /\ b[3] = 0 /\ b[4] = 0
  \/ b[1] % 128 = 127 /\ b[2] >= 128 /\ <<b[2], b[3], b[4]>> # <<128, 0, 0>>

\* The truthiness of a value in a condition.
Truthy(x) ==
  IF x.t = "s" THEN x.v # <<>>
  ELSE IF x.t = "i" THEN x.v # 0
  ELSE IF x.t = "f" THEN ~FalsyFloat(x.v)
  ELSE FALSE

\* String(n) of an integer
RECURSIVE Digits(_)
Digits(n) == IF n < 10 THEN <<48 + n>> ELSE Append(Digits(n \div 10), 48 + (n % 10))
IntToStr(n) == IF n < 0 THEN <<45>> \o Digits(0 - n) ELSE Digits(n)

\* String(x) of the float32 values of this model's datagrams
FloatToStr(b) ==
  IF b = <<67, 0, 0, 0>> THEN <<49, 50, 56>>   \* "128"
  ELSE IF b = <<63, 128, 0, 0>> THEN <<49>>    \* "1"
  ELSE <<78, 97, 78>>

\* The conversion of a value in a template literal.
ToStr(x) ==
  IF x.t = "s" THEN x.v
  ELSE IF x.t = "i" THEN IntToStr(x.v)
  ELSE IF x.t = "f" THEN FloatToStr(x.v)
  ELSE <<117, 110, 100, 101, 102, 105, 110, 101, 100>>

\* `${artist}::${title}`
TrackKey(artist, title) == ToStr(artist) \o <<Colon, Colon>> \o ToStr(title)

\* artist && title
BothSetMutant(artist, title) == Truthy(artist)
BothSet(artist, title) == Truthy(artist) /\ Truthy(title)

\* currentKey !== this.lastTrackKey, in the timer callback
RecheckMutant(currentKey, lastTrackKey) == TRUE
Recheck(currentKey, lastTrackKey) == currentKey # lastTrackKey

Event(type, value) == [type |-> type, value |-> value]
Pair(artist, title) == [artist |-> artist, title |-> title]
Handled(b, events, armed) ==
  [b |-> b, events |-> events, armed |-> armed, escaped |-> FALSE]

\* setTimeout(..., 50) after clearTimeout: the delay the timer has to run
RearmMutant(b) == IF b.armed THEN b.left ELSE TicksPerDebounce
Rearm(b) == TicksPerDebounce

\* checkTrackChange: (re)arm the debounce timer when the pair is new and whole
checkTrackChange(b) ==
  IF TrackKey(b.artist, b.title) # b.lastTrackKey /\ BothSet(b.artist, b.title)
    THEN Handled([b EXCEPT !.armed = TRUE, !.left = Rearm(b)], <<>>, TRUE)
    ELSE Handled(b, <<>>, FALSE)

\* this.emit('time' / 'bpm' / 'beat', value) after the field was set
EmitNumberMutant(old, type, x) == IF old = x THEN <<>> ELSE <<Event(type, x)>>
EmitNumber(old, type, x) == <<Event(type, x)>>

\* handleOsc: no branch of the if / else-if chain is taken
IgnoredMutant(b) == checkTrackChange(b)
Ignored(b) == Handled(b, <<>>, FALSE)

handleOsc(b, address, args) ==
  LET x == FirstArg(args)
  IN IF address = AddrTitle /\ Truthy(x)
       THEN checkTrackChange([b EXCEPT !.title = x])
     ELSE IF address = AddrArtist /\ Truthy(x)
       THEN checkTrackChange([b EXCEPT !.artist = x])
     ELSE IF address = AddrTime /\ IsNumber(x)
       THEN Handled([b EXCEPT !.time = x], EmitNumber(b.time, "time", x), FALSE)
     ELSE IF address = AddrBpm /\ IsNumber(x)
       THEN Handled([b EXCEPT !.bpm = x], EmitNumber(b.bpm, "bpm", x), FALSE)
     ELSE IF address = AddrBeat /\ IsNumber(x)
       THEN Handled([b EXCEPT !.beat = x], EmitNumber(b.beat, "beat", x), FALSE)
     ELSE Ignored(b)

\* The catch clause of the socket's message handler: the error is logged.
CatchParseErrorMutant(b) == [Handled(b, <<>>, FALSE) EXCEPT !.escaped = TRUE]
CatchParseError(b) == Handled(b, <<>>, FALSE)

\* The socket's message handler, on the decoder's result for the datagram.
onMessage(b, osc) ==
  IF osc.kind = "throw" THEN CatchParseError(b)
  ELSE IF osc.kind = "null" THEN Handled(b, <<>>, FALSE)
  ELSE handleOsc(b, osc.address, osc.args)

\* The callback of the debounce timer.
timerCallback(b) ==
  LET currentKey == TrackKey(b.artist, b.title)
  IN IF Recheck(currentKey, b.lastTrackKey) /\ BothSet(b.artist, b.title)
       THEN Handled([b EXCEPT !.lastTrackKey = currentKey],
                    <<Event("trackChanged", Pair(b.artist, b.title))>>, FALSE)
       ELSE Handled(b, <<>>, FALSE)

NameA == StrVal(<<97>>)                       \* "a"
NameAB == StrVal(<<97, Colon, Colon, 98>>)    \* "a::b"
NameC == StrVal(<<99>>)                       \* "c"
NameBC == StrVal(<<98, Colon, Colon, 99>>)    \* "b::c"

TitleC == Msg(AddrTitle, <<TagS>>, <<NameC>>)
TimeMsg == Msg(AddrTime, <<TagF>>, <<F128>>)

\* The messages Rekordbox-Link (or anything else on the port) sends.
BridgeMessages ==
  << Msg(AddrArtist, <<TagS>>, <<NameA>>),
     Msg(AddrArtist, <<TagS>>, <<NameAB>>),
     TitleC,
     Msg(AddrTitle, <<TagS>>, <<NameBC>>),
     Msg(AddrTitle, <<TagI>>, <<IntVal(7)>>),
     Msg(AddrTitle, <<TagS>>, <<EmptyString>>),
     Msg(AddrTitle, <<>>, <<>>),
     TimeMsg,
     Msg(AddrTime, <<TagS>>, <<NameC>>),
     Msg(AddrBpm, <<TagI>>, <<Zero>>),
     Msg(AddrBeat, <<TagI>>, <<Zero>>),
     Msg(AddrOther, <<TagS>>, <<NameC>>) >>

\* A message cut short: all but its last n bytes, for n = 1, 2, ... up
\* to `most`.
CutsSeq(m, most) == [n \in 1..most |-> [msg |-> m, cut |-> Len(Encode(m)) - n]]

\* The datagrams that arrive: whole messages, the title message cut anywhere,
\* and the time message cut in its argument or its type-tag string.
BridgeInputs ==
  [i \in 1..Len(BridgeMessages) |-> Whole(BridgeMessages[i])]
    \o CutsSeq(TitleC, Len(Encode(TitleC)))
    \o CutsSeq(TimeMsg, Len(encodeOscString(<<Comma, TagF>>)) + Len(EncodeArg(F128)))

\* parseOscMessage of every datagram that arrives.
Parsed == [i \in 1..Len(BridgeInputs) |-> parseOscMessage(Datagram(BridgeInputs[i]))]

NoEvent == Pair(EmptyString, EmptyString)
NoFire == [kind |-> "none", keyBefore |-> <<>>, key |-> <<>>, before |-> NoEvent]
NoInput == [d |-> 0, received |-> FALSE, changed |-> FALSE, escaped |-> FALSE,
            same |-> FALSE]
NoBurst == [phase |-> "none", field |-> "none", age |-> 0, emits |-> 0]

BInit ==
  /\ bridge = [artist |-> EmptyString, title |-> EmptyString, time |-> Zero,
               bpm |-> Zero, beat |-> Zero, lastTrackKey |-> <<>>,
               armed |-> FALSE, left |-> 0]
  /\ out = <<>>
  /\ lastIn = NoInput
  /\ lastEvent = NoEvent
  /\ lastFire = NoFire
  /\ burst = NoBurst
  /\ since = TicksPerDebounce
  /\ debounce = <<>>

\* Is the state the pair of the last trackChanged event?
Confirmed(b, e) == e # NoEvent /\ e = Pair(b.artist, b.title)

\* The field of the pair a handled datagram set, "none" when it set neither.
FieldSet(b, r) ==
  IF r.b.artist # b.artist THEN "artist"
  ELSE IF r.b.title # b.title THEN "title"
  ELSE IF r.armed THEN "same"
  ELSE "none"

\* The updates since the last confirmed track: the first update of a new
\* track, the second within the debounce delay, anything else.
BurstAfter(b, r) ==
  LET f == FieldSet(b, r)
  IN IF f = "none" /\ r.b.artist = b.artist /\ r.b.title = b.title /\ ~r.armed
       THEN burst
     ELSE IF Confirmed(b, lastEvent) /\ f \in {"artist", "title"}
       THEN [phase |-> "one", field |-> f, age |-> 0, emits |-> 0]
     ELSE IF /\ burst.phase = "one"
             /\ f \in {"artist", "title"} /\ f # burst.field
             /\ burst.age < TicksPerDebounce
       THEN [burst EXCEPT !.phase = "two", !.age = 0]
     ELSE NoBurst

\* The handler of this datagram sets the artist or the title.
Accepted(osc) ==
  /\ osc.kind \notin {"throw", "null"}
  /\ osc.address \in {AddrTitle, AddrArtist}
  /\ Truthy(FirstArg(osc.args))

\* Ticks since the last accepted update of artist or title that left a key
\* other than lastTrackKey, counted up to the debounce delay.
SinceAfter(osc, b) ==
  IF Accepted(osc) /\ TrackKey(b.artist, b.title) # b.lastTrackKey
    THEN 0 ELSE since

\* clearTimeout(this.trackChangeTimer): the timer of the handle, the one
\* created last, is taken from the pending debounce if it is still there.
ClearTimeoutMutant(ts, pending) == ts
ClearTimeout(ts, pending) ==
  IF pending THEN SubSeq(ts, 1, Len(ts) - 1) ELSE ts

\* Datagram number d arrives and the message handler runs.
Receive(d) ==
  LET r == onMessage(bridge, Parsed[d])
  IN /\ bridge' = r.b
     /\ out' = r.events
     /\ lastIn' = [d |-> d, received |-> TRUE,
                   changed |-> r.b # bridge \/ r.armed \/ r.events # <<>>,
                   escaped |-> r.escaped,
                   same |-> r.b = bridge]
     /\ burst' = BurstAfter(bridge, r)
     /\ lastFire' = NoFire
     /\ since' = SinceAfter(Parsed[d], r.b)
     /\ debounce' = IF r.armed
                    THEN Append(ClearTimeout(debounce, bridge.armed), r.b.left)
                    ELSE debounce
     /\ UNCHANGED lastEvent

\* The debounce timer expires and its callback runs.
TimerFire ==
  /\ bridge.armed /\ bridge.left = 0
  /\ LET r == timerCallback(bridge)
         emitted == r.events # <<>>
     IN /\ bridge' = [r.b EXCEPT !.armed = FALSE]
        /\ out' = r.events
        /\ lastEvent' = IF emitted THEN r.events[1].value ELSE lastEvent
        /\ lastFire' = [kind |-> IF emitted THEN "emit" ELSE "noop",
                        keyBefore |-> bridge.lastTrackKey,
                        key |-> TrackKey(bridge.artist, bridge.title),
                        before |-> lastEvent]
        /\ burst' = IF emitted /\ burst.phase # "none" /\ burst.emits < 2
                      THEN [burst EXCEPT !.emits = @ + 1] ELSE burst
  /\ lastIn' = NoInput
  /\ debounce' = SubSeq(debounce, 1, Len(debounce) - 1)
  /\ UNCHANGED since

\* Time passes; a timer that is due fires before more time passes.
Tick ==
  /\ ~(bridge.armed /\ bridge.left = 0)
  /\ bridge' = IF bridge.armed THEN [bridge EXCEPT !.left = @ - 1] ELSE bridge
  /\ burst' = IF burst.phase = "one" /\ burst.age < TicksPerDebounce
                THEN [burst EXCEPT !.age = @ + 1] ELSE burst
  /\ out' = <<>>
  /\ lastIn' = NoInput
  /\ lastFire' = NoFire
  /\ since' = IF since < TicksPerDebounce THEN since + 1 ELSE since
  /\ debounce' = [i \in 1..Len(debounce) |-> IF debounce[i] > 0 THEN debounce[i] - 1 ELSE 0]
  /\ UNCHANGED lastEvent

BNext ==
  \/ \E d \in 1..Len(BridgeInputs) : Receive(d) /\ OnlyBridge
  \/ TimerFire /\ OnlyBridge
  \/ Tick /\ OnlyBridge

(***************************************************************************)
(* Part IV: the sender's encoder against the decoder                       *)
(***************************************************************************)
Tenth == DoubleVal(<<61, 204, 204, 205>>)    \* 0.1, sent as 0.100000001490116...

\* Addresses and strings a caller of sendOsc can pass; a JavaScript string
\* may hold the character U+0000.
SentAddresses == {AddrBpm, <<>>, <<47, 97, NUL, 98>>}
SentStrings ==
  {StrVal(<<>>), StrVal(<<97, 98>>), StrVal(<<97, 98, 99>>), StrVal(<<97, 98, 99, NUL, 100>>)}
SentNumbers == {F128, Tenth}

SentValues(g) == IF g = TagF THEN SentNumbers ELSE SentStrings

\* The argument lists sendOsc encodes for a tag string over f and s.
RECURSIVE SentLists(_)
SentLists(tags) ==
  IF tags = <<>> THEN {<<>>}
  ELSE {<<v>> \o r : v \in SentValues(Head(tags)), r \in SentLists(Tail(tags))}

SentTags == UNION {[1..n -> {TagF, TagS}] : n \in 0..MaxTags}

\* sendOsc is called and the datagram reaches the decoder whole.
SendInit ==
  /\ \E a \in SentAddresses : \E g \in SentTags : \E x \in SentLists(g) :
       oscIn = Whole(Msg(a, g, x))
  /\ oscOut = NotDecoded

(***************************************************************************)
(* Part V: normalize and makeKey                                           *)
(*                                                                         *)
(* A string is a sequence of character codes.  The inputs hold no line     *)
(* terminator, so `.*` runs to the end of the string.                      *)
(***************************************************************************)
NormMaxLen == 5

\* \s
IsSpace(c) == c \in {9, 10, 11, 12, 13, 32, 160}

\* [\(\[] and [\)\]]
IsOpen(c) == c \in {40, 91}
IsClose(c) == c \in {41, 93}

\* [\w\sа-яё] under the flag i
IsKept(c) ==
  \/ c \in 48..57 \/ c \in 65..90 \/ c \in 97..122 \/ c = 95
  \/ IsSpace(c)
  \/ c \in 1040..1103 \/ c \in {1025, 1105}

\* String.prototype.toLowerCase on the letters of the inputs
toLowerCase(str) ==
  [i \in DOMAIN str |->
     IF str[i] \in 65..90 \/ str[i] \in 1040..1071 THEN str[i] + 32
     ELSE IF str[i] = 1025 THEN 1105 ELSE str[i]]

\* The positions from..to of a string (1-based, empty when from > to).
Sub(str, from, to) == IF from > to THEN <<>> ELSE SubSeq(str, from, to)

\* The first position >= p that holds an opening bracket, 0 if none.
FirstOpen(str, p) ==
  LET S == {i \in p..Len(str) : IsOpen(str[i])}
  IN IF S = {} THEN 0 ELSE MinOf(S)

\* The first position >= p that holds a closing bracket, 0 if none.
FirstClose(str, p) ==
  LET S == {i \in p..Len(str) : IsClose(str[i])}
  IN IF S = {} THEN 0 ELSE MinOf(S)

\* The start of the run of spaces that ends just before position p, not
\* before position low.
RECURSIVE RunStart(_, _, _)
RunStart(str, p, low) ==
  IF p > low /\ IsSpace(str[p - 1]) THEN RunStart(str, p - 1, low) ELSE p

\* The position after the run of spaces that starts at position p.
RECURSIVE RunEnd(_, _)
RunEnd(str, p) ==
  IF p <= Len(str) /\ IsSpace(str[p]) THEN RunEnd(str, p + 1) ELSE p

\* .replace(/\s*[\(\[][^\)\]]*[\)\]]\s*/g, ' '), from position p on: the
\* leftmost match starts at the spaces before the first opening bracket and
\* ends after the spaces behind the first closing bracket that follows it.
RECURSIVE StripBrackets(_, _)
StripBrackets(str, p) ==
  LET o == FirstOpen(str, p)
      c == IF o = 0 THEN 0 ELSE FirstClose(str, o + 1)
  IN IF o = 0 \/ c = 0 THEN Sub(str, p, Len(str))
     ELSE Sub(str, p, RunStart(str, o, p) - 1) \o <<32>>
            \o StripBrackets(str, RunEnd(str, c + 1))

\* feat\.?|ft\.?|featuring
FeatWords ==
  { <<102, 101, 97, 116>>, <<102, 101, 97, 116, 46>>, <<102, 116>>, <<102, 116, 46>>,
    <<102, 101, 97, 116, 117, 114, 105, 110, 103>> }

\* (feat\.?|ft\.?|featuring)\s+ matches at position p
FeatAt(str, p) ==
  \E w \in FeatWords :
    /\ p + Len(w) <= Len(str)
    /\ SubSeq(str, p, p + Len(w) - 1) = w
    /\ IsSpace(str[p + Len(w)])

\* .replace(/\s*(feat\.?|ft\.?|featuring)\s+.*/i, ''): the first match and
\* everything behind it is removed
StripFeat(str) ==
  LET S == {p \in 1..Len(str) : FeatAt(str, p)}
  IN IF S = {} THEN str ELSE Sub(str, 1, RunStart(str, MinOf(S), 1) - 1)

\* .replace(/\s+/g, ' ')
RECURSIVE CollapseSpaces(_, _)
CollapseSpaces(str, p) ==
  IF p > Len(str) THEN <<>>
  ELSE IF IsSpace(str[p]) THEN <<32>> \o CollapseSpaces(str, RunEnd(str, p))
  ELSE <<str[p]>> \o CollapseSpaces(str, p + 1)

\* .replace(/[^\w\sа-яё]/gi, '')
StripSpecial(str) == SelectSeq(str, IsKept)

\* .trim()
Trim(str) ==
  LET S == {i \in DOMAIN str : ~IsSpace(str[i])}
  IN IF S = {} THEN <<>>
     ELSE SubSeq(str, MinOf(S), CHOOSE i \in S : \A j \in S : j <= i)

normalize(str) ==
  IF str = <<>> THEN <<>>
  ELSE Trim(StripSpecial(CollapseSpaces(StripFeat(StripBrackets(toLowerCase(str), 1)), 1)))

\* makeKey: `${normArtist}::${normTitle}`
makeKey(artist, title) == normalize(artist) \o <<Colon, Colon>> \o normalize(title)

\* The characters of the inputs: F, f, t, space, &, ( and )
NormChars == {70, 102, 116, 32, 38, 40, 41}
NormInputs == UNION {[1..n -> NormChars] : n \in 0..NormMaxLen}

NInit ==
  /\ normIn \in NormInputs
  /\ normOut = <<>>

NIdle ==
  /\ normIn = <<>>
  /\ normOut = <<>>

\* normalize is applied to the input, then to its own result.
Normalize ==
  /\ Len(normOut) < 2
  /\ normOut' = Append(normOut, normalize(IF normOut = <<>> THEN normIn ELSE normOut[1]))
  /\ UNCHANGED normIn

NNext == Normalize /\ OnlyNormalize

(***************************************************************************)
(* Part VI: Store.save and writeJsonAtomic, one file operation at a time   *)
(*                                                                         *)
(* Part I takes writeFile as one step.  Here a write is what the operating *)
(* system does: the path is opened (created, or truncated in place), the   *)
(* bytes arrive, and only then the promise resolves.  A rename moves the   *)
(* file itself, so a writer that still holds it open goes on writing into  *)
(* it under its new name.                                                  *)
(***************************************************************************)
MaxSavers == 2       \* overlapping persistences, each of another track

Savers == 1..MaxSavers

Partial(torn) == [kind |-> "partial", torn |-> torn]
Garbled == [kind |-> "garbled"]

Path(dir, name) == [dir |-> dir, name |-> name, tmp |-> FALSE]

\* writeJsonAtomic: tmpPath is the target's directory and `.${basename}.tmp`
TmpPath(p) == [p EXCEPT !.tmp = TRUE]

\* Store.save: makeSafeFilename(artist, title) names the files of a track
RawPath(w) == Path("raw", w)
JsonPath(w) == Path("json", w)

\* Library.save: every key is written to this.libraryPath
LibraryPath == Path("library", 0)

NoPath == Path("none", 0)

Paths == {RawPath(w) : w \in Savers} \cup {JsonPath(w) : w \in Savers}
         \cup {TmpPath(JsonPath(w)) : w \in Savers}
         \cup {LibraryPath, TmpPath(LibraryPath)}

\* The savers other than w that hold the file at path p open.
Others(w, p) == {x \in Savers \ {w} : ino[x] = p}

\* fs.promises.writeFile, first half: open with O_CREAT | O_TRUNC.
Open(w, p) ==
  /\ files' = [files EXCEPT ![p] = Partial(Others(w, p) # {})]
  /\ ino' = [ino EXCEPT ![w] = p]

\* fs.promises.writeFile, second half: the last byte is written and the file
\* closed.  If another writer truncated the file meanwhile, the bytes of the
\* two are mixed in an order the scheduler chose.
Close(w, data) ==
  LET p == ino[w] IN
  /\ ino' = [ino EXCEPT ![w] = NoPath]
  /\ IF Others(w, p) # {}
     THEN files' = files
     ELSE IF files[p].kind = "partial" /\ files[p].torn
          THEN \E f \in {File(data), Garbled} : files' = [files EXCEPT ![p] = f]
          ELSE files' = [files EXCEPT ![p] = File(data)]

\* fs.promises.rename: the file moves, with whoever has it open.
Rename(from, to) ==
  /\ files' = [files EXCEPT ![to] = files[from], ![from] = Absent]
  /\ ino' = [w \in Savers |-> IF ino[w] = from THEN to ELSE ino[w]]

Go(w, label) == spc' = [spc EXCEPT ![w] = label]

\* Store.save: await fs.promises.writeFile(rawPath, rawContent, 'utf8')
SaveRawOpen(w) ==
  /\ spc[w] = "saveRaw"
  /\ Open(w, RawPath(w))
  /\ Go(w, "rawWriting")
  /\ UNCHANGED <<libIndex, ssnap>>

SaveRawDone(w) ==
  /\ spc[w] = "rawWriting"
  /\ Close(w, "raw")
  /\ Go(w, "jsonMkdir")
  /\ UNCHANGED <<libIndex, ssnap>>

\* writeJsonAtomic(jsonPath, parsed): mkdir, then writeFile is called
JsonMkdir(w) ==
  /\ spc[w] = "jsonMkdir"
  /\ Go(w, "jsonOpen")
  /\ UNCHANGED <<files, ino, libIndex, ssnap>>

\* (the mutant has Library.add run before store.save is awaited)
JsonOpenMutant(w) ==
  /\ spc[w] = "jsonOpen"
  /\ Open(w, TmpPath(JsonPath(w)))
  /\ Go(w, "jsonWriting")
  /\ libIndex' = libIndex \cup {w}
  /\ UNCHANGED ssnap

JsonOpen(w) ==
  /\ spc[w] = "jsonOpen"
  /\ Open(w, TmpPath(JsonPath(w)))
  /\ Go(w, "jsonWriting")
  /\ UNCHANGED <<libIndex, ssnap>>

JsonDone(w) ==
  /\ spc[w] = "jsonWriting"
  /\ Close(w, "doc")
  /\ Go(w, "jsonRename")
  /\ UNCHANGED <<libIndex, ssnap>>

\* rename of the document, then Store.save returns and the resolver calls
\* Library.add, which sets this.index[key] and calls save()
JsonRename(w) ==
  /\ spc[w] = "jsonRename"
  /\ files[TmpPath(JsonPath(w))] # Absent
  /\ Rename(TmpPath(JsonPath(w)), JsonPath(w))
  /\ libIndex' = libIndex \cup {w}
  /\ Go(w, "libMkdir")
  /\ UNCHANGED ssnap

\* writeJsonAtomic(this.libraryPath, this.index): mkdir resolves, then
\* JSON.stringify(data) is evaluated and writeFile called
IndexMkdir(w) ==
  /\ spc[w] = "libMkdir"
  /\ ssnap' = [ssnap EXCEPT ![w] = libIndex]
  /\ Go(w, "libOpen")
  /\ UNCHANGED <<files, ino, libIndex>>

IndexOpen(w) ==
  /\ spc[w] = "libOpen"
  /\ Open(w, TmpPath(LibraryPath))
  /\ Go(w, "libWriting")
  /\ UNCHANGED <<libIndex, ssnap>>

IndexDone(w) ==
  /\ spc[w] = "libWriting"
  /\ Close(w, ssnap[w])
  /\ Go(w, "libRename")
  /\ UNCHANGED <<libIndex, ssnap>>

IndexRename(w) ==
  /\ spc[w] = "libRename"
  /\ files[TmpPath(LibraryPath)] # Absent
  /\ Rename(TmpPath(LibraryPath), LibraryPath)
  /\ Go(w, "done")
  /\ UNCHANGED <<libIndex, ssnap>>

\* rename rejects with ENOENT: another saver renamed the temporary file
IndexRenameGone(w) ==
  /\ spc[w] = "libRename"
  /\ files[TmpPath(LibraryPath)] = Absent
  /\ Go(w, "failed")
  /\ UNCHANGED <<files, ino, libIndex, ssnap>>

\* The raw file of saver 1 may be the staged file the resolver has just read
\* (checkLocalFiles saves under the name it found); every other path is new.
SInit ==
  /\ spc = [w \in Savers |-> "saveRaw"]
  /\ \E staged \in {Absent, File("raw")} :
       files = [p \in Paths |-> IF p = RawPath(1) THEN staged ELSE Absent]
  /\ ino = [w \in Savers |-> NoPath]
  /\ libIndex = {}
  /\ ssnap = [w \in Savers |-> {}]

SIdle ==
  /\ spc = [w \in Savers |-> "done"]
  /\ files = [p \in Paths |-> Absent]
  /\ ino = [w \in Savers |-> NoPath]
  /\ libIndex = {}
  /\ ssnap = [w \in Savers |-> {}]

SNext ==
  \/ \E w \in Savers : SaveRawOpen(w) /\ OnlyStorage
  \/ \E w \in Savers : SaveRawDone(w) /\ OnlyStorage
  \/ \E w \in Savers : JsonMkdir(w) /\ OnlyStorage
  \/ \E w \in Savers : JsonOpen(w) /\ OnlyStorage
  \/ \E w \in Savers : JsonDone(w) /\ OnlyStorage
  \/ \E w \in Savers : JsonRename(w) /\ OnlyStorage
  \/ \E w \in Savers : IndexMkdir(w) /\ OnlyStorage
  \/ \E w \in Savers : IndexOpen(w) /\ OnlyStorage
  \/ \E w \in Savers : IndexDone(w) /\ OnlyStorage
  \/ \E w \in Savers : IndexRename(w) /\ OnlyStorage
  \/ \E w \in Savers : IndexRenameGone(w) /\ OnlyStorage

(***************************************************************************)
(* Part VII: LrclibProvider.search                                         *)
(*                                                                         *)
(* One resolve() call that asks one LrclibProvider.  The network decides   *)
(* when and whether the response head and the response body arrive; time   *)
(* passes in ticks and a timer is due when its budget has elapsed.         *)
(***************************************************************************)
Budget == 2          \* this.timeout, in ticks
MaxClock == 3        \* the clock is not followed further than this

Attempts == {1, 2}

\* _doSearch: the object built from the first item with syncedLyrics
Synced == [kind |-> "result", format |-> "lrc", provider |-> "lrclib"]

\* _doSearch: the catch block logs the error and returns null
CatchMutant(err) == ErrorResult
Catch(err) == NullResult

\* _doSearch: arms a timer and calls fetch
StartSearch(a, tm) ==
  /\ attempt' = a
  /\ ppc' = "fetch"
  /\ timers' = tm \cup {a}
  /\ clock' = [clock EXCEPT ![a] = 0]
  /\ UNCHANGED ret

\* search: _doSearch of the current attempt returned r (an ErrorResult
\* stands for its rejection, which the awaiting search passes on).
Returned(r, fail, tm) ==
  /\ lastFail' = fail
  /\ IF r = NullResult /\ attempt = 1 /\ cleanDiffers
       THEN StartSearch(2, tm)
       ELSE /\ ret' = r
            /\ ppc' = "returned"
            /\ timers' = tm
            /\ UNCHANGED <<attempt, clock>>
  /\ UNCHANGED <<cleanDiffers, token, resolved>>

\* fetch resolves with the response head; clearTimeout; !res.ok returns null,
\* otherwise res.json() is awaited.
FetchResponse(ok) ==
  /\ ppc = "fetch"
  /\ IF ok
       THEN /\ ppc' = "body"
            /\ timers' = timers \ {attempt}
            /\ UNCHANGED <<attempt, clock, ret, cleanDiffers, lastFail, token,
                           resolved>>
       ELSE Returned(NullResult, "status", timers \ {attempt})

\* fetch rejects: connection refused, DNS failure, reset.  clearTimeout is
\* skipped, the timer stays armed.
FetchError ==
  /\ ppc = "fetch"
  /\ Returned(Catch("TypeError"), "transport", timers)

\* The timer callback: controller.abort().  A fetch still pending rejects with
\* an AbortError; a finished one is not affected.
AbortTimer(a) ==
  /\ a \in timers
  /\ clock[a] >= Budget
  /\ IF ppc = "fetch" /\ attempt = a
       THEN Returned(Catch("AbortError"), "timeout", timers \ {a})
       ELSE /\ timers' = timers \ {a}
            /\ UNCHANGED <<ppc, attempt, clock, ret, cleanDiffers, lastFail,
                           token, resolved>>

BodyKinds == {"synced", "plain", "empty", "notArray"}

\* res.json() resolves with the parsed body.
BodyJson(d) ==
  /\ ppc = "body"
  /\ Returned(IF d = "synced" THEN Synced ELSE NullResult, "none", timers)

\* res.json() rejects: the connection broke, or the body is not JSON.
BodyError ==
  /\ ppc = "body"
  /\ Returned(Catch("body"), "body", timers)

\* A tick of the clock.  A timer that is due fires before time goes on.
ClockTick ==
  /\ \A a \in timers : clock[a] < Budget
  /\ \E a \in Attempts : a <= attempt /\ clock[a] < MaxClock
  /\ ppc \in {"fetch", "body"}
  /\ clock' = [a \in Attempts |->
                 IF a <= attempt /\ clock[a] < MaxClock THEN clock[a] + 1
                                                        ELSE clock[a]]
  /\ UNCHANGED <<ppc, attempt, timers, ret, cleanDiffers, lastFail, token,
                 resolved>>

\* _doResolve: `await provider.search` resumes.  null from the last provider:
\* "Not found", return null, and the finally block of resolve() deletes the
\* token.  A result: store.save is called.  A rejection rejects resolve().
SearchReturn ==
  /\ ppc = "returned"
  /\ IF ret = Synced
       THEN /\ ppc' = "persist"
            /\ UNCHANGED <<token, resolved>>
       ELSE /\ ppc' = "done"
            /\ token' = FALSE
            /\ resolved' = ret
  /\ UNCHANGED <<attempt, timers, clock, ret, cleanDiffers, lastFail>>

\* store.save and library.add resolve; library.find is returned.
PersistOk ==
  /\ ppc = "persist"
  /\ ppc' = "done"
  /\ token' = FALSE
  /\ resolved' = Entry("t1", [name |-> "lrclib", n |-> 1], "lrc")
  /\ UNCHANGED <<attempt, timers, clock, ret, cleanDiffers, lastFail>>

\* store.save or library.add rejects.
PersistFail ==
  /\ ppc = "persist"
  /\ ppc' = "done"
  /\ token' = FALSE
  /\ resolved' = ErrorResult
  /\ UNCHANGED <<attempt, timers, clock, ret, cleanDiffers, lastFail>>

\* resolve() has stored the token and _doResolve has called search, which has
\* called _doSearch, which has armed its timer and called fetch.
PInit ==
  /\ ppc = "fetch"
  /\ attempt = 1
  /\ timers = {1}
  /\ clock = [a \in Attempts |-> 0]
  /\ ret = Pending
  /\ cleanDiffers \in BOOLEAN
  /\ lastFail = "none"
  /\ token = TRUE
  /\ resolved = Pending

PIdle ==
  /\ ppc = "done"
  /\ attempt = 1
  /\ timers = {}
  /\ clock = [a \in Attempts |-> 0]
  /\ ret = NullResult
  /\ cleanDiffers = FALSE
  /\ lastFail = "none"
  /\ token = FALSE
  /\ resolved = NullResult

TimerStep == \E a \in Attempts : AbortTimer(a) /\ OnlyProvider
TickStep == ClockTick /\ OnlyProvider
ReturnStep == SearchReturn /\ OnlyProvider
PersistStep == (PersistOk \/ PersistFail) /\ OnlyProvider

PNext ==
  \/ \E ok \in BOOLEAN : FetchResponse(ok) /\ OnlyProvider
  \/ FetchError /\ OnlyProvider
  \/ TimerStep
  \/ \E d \in BodyKinds : BodyJson(d) /\ OnlyProvider
  \/ BodyError /\ OnlyProvider
  \/ TickStep
  \/ ReturnStep
  \/ PersistOk /\ OnlyProvider
  \/ PersistFail /\ OnlyProvider

(***************************************************************************)
(* Part VIII: the server's handler of trackChanged                         *)
(***************************************************************************)
MaxEvents == 2       \* trackChanged events in one behaviour

Events == 1..MaxEvents

CoverOf(e) == [kind |-> "cover", of |-> e]
NoCover == [kind |-> "null"]
NoLyrics == 0        \* currentState.lyrics = null

Message(e, type, status) == [event |-> e, type |-> type, status |-> status]

\* broadcast(message): sent to every connected viewer
Broadcast(msgs) == sent' = sent \cup msgs

\* The handler's synchronous start: currentState is reset, 'loading' is
\* broadcast, resolver.resolve and coverProvider.getCover are called.
TrackChanged(e) ==
  /\ hpc[e] = "idle"
  /\ \A d \in Events : d < e => hpc[d] # "idle"
  /\ hpc' = [hpc EXCEPT ![e] = "all"]
  /\ lyricsStatus' = "loading"
  /\ coverUrl' = NoCover
  /\ lyrics' = NoLyrics
  /\ Broadcast({Message(e, "track", "loading")})
  /\ UNCHANGED <<lyr, cov, hfail>>

\* The handler after `await Promise.all([...])` resolved with a lyrics
\* result lr and a cover cu.
AfterAll(e, lr, cu) ==
  /\ coverUrl' = IF cu # NoCover THEN cu ELSE coverUrl
  /\ IF lr # NullResult
       THEN /\ hpc' = [hpc EXCEPT ![e] = "load"]
            /\ Broadcast(IF cu # NoCover THEN {Message(e, "cover", "url")} ELSE {})
            /\ UNCHANGED lyricsStatus
       ELSE /\ hpc' = [hpc EXCEPT ![e] = "done"]
            /\ lyricsStatus' = "not_found"
            /\ Broadcast((IF cu # NoCover THEN {Message(e, "cover", "url")} ELSE {})
                         \cup {Message(e, "lyrics", "not_found")})

\* The promise of resolver.resolve settles: with an entry, with null, or it
\* rejects.  A rejection rejects Promise.all and with it the handler's own
\* promise, which nothing awaits.
ResolveSettles(e, r) ==
  /\ hpc[e] = "all"
  /\ lyr[e] = Pending
  /\ lyr' = [lyr EXCEPT ![e] = r]
  /\ hfail' = [hfail EXCEPT ![e] = IF r = ErrorResult THEN "resolve" ELSE @]
  /\ IF r = ErrorResult
       THEN /\ hpc' = [hpc EXCEPT ![e] = "rejected"]
            /\ UNCHANGED <<lyricsStatus, coverUrl, sent>>
       ELSE IF cov[e] # Pending
              THEN AfterAll(e, r, cov[e])
              ELSE UNCHANGED <<hpc, lyricsStatus, coverUrl, sent>>
  /\ UNCHANGED <<cov, lyrics>>

\* The promise of getCover(...).catch(...) settles; it cannot reject.
CoverSettles(e, u) ==
  /\ hpc[e] = "all"
  /\ cov[e] = Pending
  /\ cov' = [cov EXCEPT ![e] = u]
  /\ IF lyr[e] # Pending
       THEN AfterAll(e, lyr[e], u)
       ELSE UNCHANGED <<hpc, lyricsStatus, coverUrl, sent>>
  /\ UNCHANGED <<lyr, lyrics, hfail>>

\* resolver.store.load resolves with the document.
LoadOk(e) ==
  /\ hpc[e] = "load"
  /\ hpc' = [hpc EXCEPT ![e] = "done"]
  /\ lyricsStatus' = "found"
  /\ lyrics' = e
  /\ Broadcast({Message(e, "lyrics", "found")})
  /\ UNCHANGED <<lyr, cov, coverUrl, hfail>>

\* resolver.store.load rejects (file missing, invalid JSON): the catch block.
LoadFail(e) ==
  /\ hpc[e] = "load"
  /\ hpc' = [hpc EXCEPT ![e] = "done"]
  /\ lyricsStatus' = "not_found"
  /\ Broadcast({Message(e, "lyrics", "not_found")})
  /\ hfail' = [hfail EXCEPT ![e] = "load"]
  /\ UNCHANGED <<lyr, cov, coverUrl, lyrics>>

ResolveOutcomes ==
  {Entry("t1", [name |-> "lrclib", n |-> 1], "lrc"), NullResult, ErrorResult}

HInit ==
  /\ hpc = [e \in Events |-> "idle"]
  /\ lyr = [e \in Events |-> Pending]
  /\ cov = [e \in Events |-> Pending]
  /\ lyricsStatus = "idle"
  /\ coverUrl = NoCover
  /\ sent = {}
  /\ lyrics = NoLyrics
  /\ hfail = [e \in Events |-> "none"]

HIdle == HInit

HNext ==
  \/ \E e \in Events : TrackChanged(e) /\ OnlyServer
  \/ \E e \in Events : \E r \in ResolveOutcomes : ResolveSettles(e, r) /\ OnlyServer
  \/ \E e \in Events : \E u \in {CoverOf(e), NoCover} : CoverSettles(e, u) /\ OnlyServer
  \/ \E e \in Events : LoadOk(e) /\ OnlyServer
  \/ \E e \in Events : LoadFail(e) /\ OnlyServer

(***************************************************************************)
(* Part IX: the timed-text parsers                                         *)
(*                                                                         *)
(* Strings are sequences of character codes.  Times are kept in            *)
(* milliseconds: the parsers build a time as minutes * 60 + seconds +      *)
(* ms / 1000 from an integer number of milliseconds, and a duration hint   *)
(* is a number of seconds given here in milliseconds too.                  *)
(***************************************************************************)
MaxLines == 3        \* lines of an LRC text, blocks of an SRT text

NoDuration == 0 - 1  \* duration = null
NoTime == 0 - 1      \* parseTimestamp returned null
NaN == 0 - 1000000   \* parseInt found no digits

Tail30 == 30000      \* the tail of the last line: time + 30

\* !x for a number or null
Falsy(x) == x = NoDuration \/ x = 0

IsDigit(c) == c \in 48..57

\* \w
IsWord(c) == IsDigit(c) \/ c \in 65..90 \/ c \in 97..122 \/ c = 95

\* The first position >= p that does not hold a digit.
RECURSIVE DigitsEnd(_, _)
DigitsEnd(str, p) ==
  IF p <= Len(str) /\ IsDigit(str[p]) THEN DigitsEnd(str, p + 1) ELSE p

RECURSIVE WordEnd(_, _)
WordEnd(str, p) ==
  IF p <= Len(str) /\ IsWord(str[p]) THEN WordEnd(str, p + 1) ELSE p

\* parseInt(digits, 10) of a string of digits
RECURSIVE DecValue(_)
DecValue(str) ==
  IF str = <<>> THEN 0
  ELSE 10 * DecValue(SubSeq(str, 1, Len(str) - 1)) + (str[Len(str)] - 48)

\* parseInt(str, 10): leading white space, a sign, the digits that follow
parseInt(str) ==
  LET p == RunEnd(str, 1)
      neg == p <= Len(str) /\ str[p] = 45
      q == IF p <= Len(str) /\ str[p] \in {43, 45} THEN p + 1 ELSE p
      e == DigitsEnd(str, q)
  IN IF e = q THEN NaN
     ELSE IF neg THEN 0 - DecValue(Sub(str, q, e - 1))
     ELSE DecValue(Sub(str, q, e - 1))

\* x in front of a non-empty list of groups; no match stays no match
Prepend(x, r) == IF r = <<>> THEN <<>> ELSE <<x>> \o r

\* A match, at position p exactly, of (\d+) groups separated by one character
\* of each class of seps: the groups, or <<>> when there is no match at p.
\* RunsUpTo is given the end e of the first group.
RECURSIVE RunsAt(_, _, _)
RunsUpTo(str, p, e, seps) ==
  IF e = p THEN <<>>
  ELSE IF seps = <<>> THEN <<Sub(str, p, e - 1)>>
  ELSE IF e <= Len(str) /\ str[e] \in Head(seps)
    THEN Prepend(Sub(str, p, e - 1), RunsAt(str, e + 1, Tail(seps)))
  ELSE <<>>

RunsAt(str, p, seps) == RunsUpTo(str, p, DigitsEnd(str, p), seps)

\* str.match of such a pattern: the match at the leftmost position of S
FirstRuns(str, S, seps) ==
  IF S = {} THEN <<>> ELSE RunsAt(str, MinOf(S), seps)

SearchRuns(str, seps) ==
  FirstRuns(str, {p \in 1..Len(str) : RunsAt(str, p, seps) # <<>>}, seps)

\* match[n].padEnd(3, '0').slice(0, 3), parsed
MillisMutant(frac) == DecValue(frac)
Millis(frac) == DecValue(SubSeq(frac \o <<48, 48, 48>>, 1, 3))

LrcSeps == <<{58}, {46, 58}>>   \* ":" then "." or ":"

\* minutes * 60 + seconds + ms / 1000 of the groups of a match, null for none
LrcTime(g) ==
  IF g = <<>> THEN NoTime
  ELSE (DecValue(g[1]) * 60 + DecValue(g[2])) * 1000 + Millis(g[3])

\* lrc.js parseTimestamp: /(\d+):(\d+)[.:](\d+)/
lrcParseTimestamp(ts) == LrcTime(SearchRuns(ts, LrcSeps))

\* Where the "]" of a time code with groups g that opens at p must be.
StampEnd(p, g) == p + 1 + Len(g[1]) + 1 + Len(g[2]) + 1 + Len(g[3])

\* text.match(/^\[(\d+:\d+[.:]\d+)\]/) on the text from position p on;
\* StampMatch is given the groups found after the "[".
StampMatch(str, p, g) ==
  IF /\ p <= Len(str) /\ str[p] = 91 /\ g # <<>>
     /\ StampEnd(p, g) <= Len(str) /\ str[StampEnd(p, g)] = 93
    THEN [ok |-> TRUE,
          time |-> lrcParseTimestamp(Sub(str, p + 1, StampEnd(p, g) - 1)),
          next |-> StampEnd(p, g) + 1]
    ELSE [ok |-> FALSE, time |-> NoTime, next |-> p]

StampAt(str, p) == StampMatch(str, p, RunsAt(str, p + 1, LrcSeps))

\* The while loop over the leading time codes of a line; NextStamp is given
\* the match s at p.
RECURSIVE Timestamps(_, _, _)
NextStamp(str, p, acc, s) ==
  IF s.ok
    THEN Timestamps(str, s.next, IF s.time # NoTime THEN Append(acc, s.time) ELSE acc)
    ELSE [times |-> acc, text |-> Sub(str, p, Len(str))]

Timestamps(str, p, acc) == NextStamp(str, p, acc, StampAt(str, p))

\* line.match(/^\[(\w+):(.+)\]$/); MetaAt is given the end e of the key
MetaAt(line, e, n) ==
  IF /\ n >= 1 /\ line[1] = 91
     /\ e > 2 /\ e <= n /\ line[e] = 58
     /\ n >= e + 2 /\ line[n] = 93
     /\ \A i \in (e + 1)..(n - 1) : line[i] \notin {10, 13, 8232, 8233}
    THEN [ok |-> TRUE, key |-> toLowerCase(Sub(line, 2, e - 1)),
          value |-> Trim(Sub(line, e + 1, n - 1))]
    ELSE [ok |-> FALSE, key |-> <<>>, value |-> <<>>]

MetaMatch(line) == MetaAt(line, WordEnd(line, 2), Len(line))

\* content.split(/\r?\n/)
RECURSIVE SplitLines(_)
SplitLines(str) ==
  LET S == {i \in 1..Len(str) : str[i] = 10}
      k == MinOf(S)
      cr == k > 1 /\ str[k - 1] = 13
  IN IF S = {} THEN <<str>>
     ELSE <<Sub(str, 1, IF cr THEN k - 2 ELSE k - 1)>>
          \o SplitLines(Sub(str, k + 1, Len(str)))

\* The loop over the lines: directives go to meta, timed lines to lines.
\* CollectLine is given what line i matched: mm as a directive, ts as time
\* codes followed by text.
RECURSIVE Collect(_, _, _, _)
TimedLine(lines, i, meta, acc, times, text) ==
  IF times = <<>> \/ text = <<>>
    THEN Collect(lines, i + 1, meta, acc)
    ELSE Collect(lines, i + 1, meta,
                 acc \o [k \in 1..Len(times) |-> [time |-> times[k], text |-> text]])

CollectLine(lines, i, meta, acc, mm, ts) ==
  IF mm.ok
    THEN Collect(lines, i + 1, Append(meta, <<mm.key, mm.value>>), acc)
    ELSE TimedLine(lines, i, meta, acc, ts.times, Trim(ts.text))

Collect(lines, i, meta, acc) ==
  IF i > Len(lines) THEN [meta |-> meta, lines |-> acc]
  ELSE CollectLine(lines, i, meta, acc, MetaMatch(lines[i]),
                   Timestamps(lines[i], 1, <<>>))

\* result.meta[key]: the last directive of that key; '' stands for undefined
\* too (the parser only tests it for truth)
MetaGet(meta, key) ==
  LET S == {i \in 1..Len(meta) : meta[i][1] = key}
  IN IF S = {} THEN <<>> ELSE meta[CHOOSE i \in S : \A j \in S : j <= i][2]

KeyLength == <<108, 101, 110, 103, 116, 104>>   \* "length"
KeyOffset == <<111, 102, 102, 115, 101, 116>>   \* "offset"

\* lines.sort((a, b) => a.time - b.time): stable
RECURSIVE SortByTime(_)
SortByTime(ls) ==
  IF ls = <<>> THEN <<>>
  ELSE LET front == SortByTime(SubSeq(ls, 1, Len(ls) - 1))
           x == ls[Len(ls)]
           k == Cardinality({i \in 1..Len(front) : front[i].time <= x.time})
       IN SubSeq(front, 1, k) \o <<x>> \o SubSeq(front, k + 1, Len(front))

\* let trackDuration = duration; then [length:mm:ss] when that is falsy
TrackDuration(duration, meta) ==
  LET v == MetaGet(meta, KeyLength)
      g == SearchRuns(v, <<{58}>>)
  IN IF Falsy(duration) /\ v # <<>> /\ g # <<>>
       THEN (DecValue(g[1]) * 60 + DecValue(g[2])) * 1000
       ELSE duration

\* The end of the last line.
LastEndMutant(td, time) == time + Tail30
LastEnd(td, time) == IF Falsy(td) THEN time + Tail30 ELSE td

\* The loop that sets endTime.
EndTimes(ls, td) ==
  [i \in 1..Len(ls) |->
     [time |-> ls[i].time,
      endTime |-> IF i < Len(ls) THEN ls[i + 1].time ELSE LastEnd(td, ls[i].time),
      text |-> ls[i].text]]

\* Math.max(0, x + offsetSec)
ShiftMutant(x, offsetMs) == x + offsetMs
Shift(x, offsetMs) == IF x + offsetMs < 0 THEN 0 ELSE x + offsetMs

\* parseInt(result.meta.offset, 10) || 0
OffsetMs(meta) ==
  LET n == parseInt(MetaGet(meta, KeyOffset)) IN IF n = NaN THEN 0 ELSE n

\* if (result.meta.offset) { ... }
ApplyOffset(ls, meta) ==
  IF MetaGet(meta, KeyOffset) = <<>> THEN ls
  ELSE [i \in 1..Len(ls) |->
          [time |-> Shift(ls[i].time, OffsetMs(meta)),
           endTime |-> Shift(ls[i].endTime, OffsetMs(meta)),
           text |-> ls[i].text]]

\* lrc.js parse(content, { duration }); LrcDocument is given the result of
\* the loop over the lines.
LrcDocument(c, duration) ==
  LET td == TrackDuration(duration, c.meta)
      timed == EndTimes(SortByTime(c.lines), td)
  IN [meta |-> c.meta,
      lines |-> ApplyOffset(timed, c.meta),
      uncorrected |-> timed,
      duration |-> IF Falsy(td) THEN NoDuration ELSE td]

lrcParse(content, duration) ==
  LrcDocument(Collect(SplitLines(content), 1, <<>>, <<>>), duration)

SrtSeps == <<{58}, {58}, {44, 46}>>   \* ":", ":", then "," or "."

SrtTime(g) ==
  IF g = <<>> THEN NoTime
  ELSE (DecValue(g[1]) * 3600 + DecValue(g[2]) * 60 + DecValue(g[3])) * 1000
       + Millis(g[4])

\* srt.js parseTimestamp: /(\d+):(\d+):(\d+)[,.](\d+)/
srtParseTimestamp(ts) == SrtTime(SearchRuns(ts, SrtSeps))

Arrow == <<45, 45, 62>>   \* "-->"

\* str.indexOf('-->') from position p on, 0 when there is none
ArrowAt(str, p) == p + 2 <= Len(str) /\ SubSeq(str, p, p + 2) = Arrow

FirstArrow(str, p) ==
  LET S == {i \in p..Len(str) : ArrowAt(str, i)}
  IN IF S = {} THEN 0 ELSE MinOf(S)

\* timeLine.split('-->').map(s => s.trim()), its first two elements
ArrowSplit(str) ==
  LET a == FirstArrow(str, 1)
      b == FirstArrow(str, a + 3)
  IN <<Trim(Sub(str, 1, a - 1)),
       Trim(Sub(str, a + 3, IF b = 0 THEN Len(str) ELSE b - 1))>>

\* The length of a match of /\r?\n/ at position p exactly, 0 if none.
NewlineAt(str, p) ==
  IF p <= Len(str) /\ str[p] = 10 THEN 1
  ELSE IF p < Len(str) /\ str[p] = 13 /\ str[p + 1] = 10 THEN 2
  ELSE 0

\* The length of a match of /\r?\n\r?\n/ at position p exactly, 0 if none.
BlankAt(str, p) ==
  LET one == NewlineAt(str, p)
      two == NewlineAt(str, p + one)
  IN IF one = 0 \/ two = 0 THEN 0 ELSE one + two

\* content.trim().split(/\r?\n\r?\n/)
RECURSIVE SplitBlocks(_)
SplitBlocks(str) ==
  LET S == {i \in 1..Len(str) : BlankAt(str, i) > 0}
      k == MinOf(S)
  IN IF S = {} THEN <<str>>
     ELSE <<Sub(str, 1, k - 1)>>
          \o SplitBlocks(Sub(str, k + BlankAt(str, k), Len(str)))

\* lines.slice(from).join(' ')
RECURSIVE JoinLines(_, _)
JoinLines(lines, from) ==
  IF from > Len(lines) THEN <<>>
  ELSE IF from = Len(lines) THEN lines[from]
  ELSE lines[from] \o <<32>> \o JoinLines(lines, from + 1)

\* The end of the loop body: the line pushed, if any.
TimedBlockMutant(time, endTime, text) ==
  IF time = NoTime \/ endTime = NoTime THEN <<>>
  ELSE <<[time |-> time, endTime |-> endTime, text |-> text]>>

TimedBlock(time, endTime, text) ==
  IF time = NoTime \/ endTime = NoTime THEN <<>>
  ELSE IF text = <<>> THEN <<>>
  ELSE <<[time |-> time, endTime |-> endTime, text |-> text]>>

\* The body of the loop over the blocks, given the lines of the block.
BlockLine(lines) ==
  LET S == {i \in 1..Len(lines) : FirstArrow(lines[i], 1) # 0}
      idx == MinOf(S)
      ts == ArrowSplit(lines[idx])
  IN IF Len(lines) < 2 \/ S = {} THEN <<>>
     ELSE TimedBlock(srtParseTimestamp(ts[1]), srtParseTimestamp(ts[2]),
                     Trim(JoinLines(lines, idx + 1)))

BlockLines(block) == BlockLine(SplitLines(block))

RECURSIVE CollectBlocks(_, _)
CollectBlocks(blocks, i) ==
  IF i > Len(blocks) THEN <<>>
  ELSE BlockLines(blocks[i]) \o CollectBlocks(blocks, i + 1)

\* srt.js parse(content, { duration }); SrtDocument is given the sorted lines
SrtDocument(ls, duration) ==
  [meta |-> <<>>,
   lines |-> ls,
   uncorrected |-> ls,
   duration |-> IF Falsy(duration) THEN NoDuration ELSE duration]

srtParse(content, duration) ==
  SrtDocument(SortByTime(CollectBlocks(SplitBlocks(Trim(content)), 1)), duration)

\* Lines an LRC text is made of here.
LrcPool ==
  <<<<91, 48, 48, 58, 48, 49, 46, 48, 48, 93, 72, 101, 108, 108, 111>>,
    <<91, 48, 48, 58, 48, 51, 46, 53, 48, 93, 87, 111, 114, 108, 100>>,
    <<91, 48, 48, 58, 48, 50, 46, 48, 93, 91, 48, 48, 58, 48, 48, 58, 48, 55, 93, 32, 72, 105, 32>>,
    <<91, 108, 101, 110, 103, 116, 104, 58, 48, 48, 58, 48, 50, 93>>,
    <<91, 111, 102, 102, 115, 101, 116, 58, 43, 53, 48, 48, 93>>,
    <<91, 111, 102, 102, 115, 101, 116, 58, 45, 49, 53, 48, 48, 93>>,
    <<110, 111, 32, 116, 105, 109, 101, 32, 99, 111, 100, 101>>,
    <<91, 48, 48, 58, 48, 52, 46, 48, 48, 93, 66, 121, 101, 32, 91, 120, 50, 93>>>>
\* "[00:01.00]Hello" | "[00:03.50]World" | "[00:02.0][00:00:07] Hi " | "[length:00:02]" | "[offset:+500]" | "[offset:-1500]" | "no time code" | "[00:04.00]Bye [x2]"

\* Blocks an SRT text is made of here, each a sequence of lines.
SrtPool ==
  <<<<<<49>>, <<48, 48, 58, 48, 48, 58, 48, 49, 44, 48, 48, 48, 32, 45, 45, 62, 32, 48, 48, 58, 48, 48, 58, 48, 51, 44, 48, 48, 48>>, <<72, 101, 108, 108, 111, 32, 119, 111, 114, 108, 100>>>>,
    <<<<50>>, <<48, 48, 58, 48, 48, 58, 48, 48, 46, 53, 48, 48, 32, 45, 45, 62, 32, 48, 48, 58, 48, 48, 58, 48, 49, 46, 48, 48, 48>>, <<32, 72, 105>>, <<116, 104, 101, 114, 101>>>>,
    <<<<51>>, <<48, 48, 58, 48, 48, 58, 48, 53, 44, 48, 48, 48, 32, 45, 45, 62, 32, 48, 48, 58, 48, 48, 58, 48, 52, 44, 48, 48, 48>>, <<66, 97, 99, 107>>>>,
    <<<<52>>, <<120, 120, 32, 45, 45, 62, 32, 121, 121>>, <<78, 111>>>>,
    <<<<53>>, <<48, 48, 58, 48, 48, 58, 48, 50, 44, 48, 48, 48, 32, 45, 45, 62, 32, 48, 48, 58, 48, 48, 58, 48, 50, 44, 53, 48, 48>>>>,
    <<<<48, 48, 58, 48, 48, 58, 48, 57, 44, 48, 48, 48, 32, 45, 45, 62, 32, 48, 48, 58, 48, 48, 58, 48, 57, 44, 53, 48, 48>>>>>>
\* "1\n00:00:01,000 --> 00:00:03,000\nHello world" | "2\n00:00:00.500 --> 00:00:01.000\n Hi\nthere" | "3\n00:00:05,000 --> 00:00:04,000\nBack" | "4\nxx --> yy\nNo" | "5\n00:00:02,000 --> 00:00:02,500" | "00:00:09,000 --> 00:00:09,500"

LF == <<10>>
CRLF == <<13, 10>>

\* The lines joined by the line terminator nl.
RECURSIVE JoinWith(_, _)
JoinWith(lines, nl) ==
  IF lines = <<>> THEN <<>>
  ELSE IF Len(lines) = 1 THEN lines[1]
  ELSE lines[1] \o nl \o JoinWith(Tail(lines), nl)

LrcText(f, nl) == JoinWith([i \in DOMAIN f |-> LrcPool[f[i]]], nl)
SrtText(f, nl) == JoinWith([i \in DOMAIN f |-> JoinWith(SrtPool[f[i]], nl)], nl \o nl)

\* Duration hints: none, shorter than the text, longer than the text.
DurationHints == {NoDuration, 2000, 40000}

\* parsers/index.js getParser
getParser(format) ==
  IF format \in {".lrc", "lrc"} THEN "lrc"
  ELSE IF format \in {".srt", "srt"} THEN "srt"
  ELSE "none"

\* parsers/index.js parse(content, formatOrExtension): a third argument is
\* not among its parameters, the parser is called with the content alone
parsersParse(content, format, options) ==
  IF getParser(format) = "lrc" THEN lrcParse(content, NoDuration)
  ELSE srtParse(content, NoDuration)

\* Store.save: the document handed to writeJsonAtomic
StoreDocument(content, format, duration) ==
  LET parsed == parsersParse(content, format, duration)
  IN [parsed EXCEPT !.duration = IF Falsy(duration) THEN @ ELSE duration]

NoDocument == [meta |-> <<>>, lines |-> <<>>, uncorrected |-> <<>>,
               duration |-> NoDuration]

Call(caller, format, content, duration) ==
  [caller |-> caller, format |-> format, content |-> content,
   duration |-> duration]

TInit ==
  /\ \E n \in 1..MaxLines : \E nl \in {LF, CRLF} : \E d \in DurationHints :
       \/ \E f \in [1..n -> DOMAIN LrcPool] :
            \E caller \in {"lrc", "store"} :
              docIn = Call(caller, "lrc", LrcText(f, nl), d)
       \/ \E f \in [1..n -> DOMAIN SrtPool] :
            docIn = Call("srt", ".srt", SrtText(f, nl), d)
  /\ docOut = [done |-> FALSE, doc |-> NoDocument]

TIdle ==
  /\ docIn = Call("none", "lrc", <<>>, NoDuration)
  /\ docOut = [done |-> FALSE, doc |-> NoDocument]

Return(doc) ==
  /\ ~docOut.done
  /\ docOut' = [done |-> TRUE, doc |-> doc]
  /\ UNCHANGED docIn

\* lrc.parse(content, { duration })
ParseLrc ==
  /\ docIn.caller = "lrc"
  /\ Return(lrcParse(docIn.content, docIn.duration))

\* srt.parse(content, { duration })
ParseSrt ==
  /\ docIn.caller = "srt"
  /\ Return(srtParse(docIn.content, docIn.duration))

\* Store.save(artist, title, rawContent, format, duration): parse and meta
SaveParse ==
  /\ docIn.caller = "store"
  /\ Return(StoreDocument(docIn.content, docIn.format, docIn.duration))

TNext ==
  \/ ParseLrc /\ OnlyParser
  \/ ParseSrt /\ OnlyParser
  \/ SaveParse /\ OnlyParser

\* The most time codes a line of LrcPool begins with.
MaxStamps == 2

(***************************************************************************)
(* Part X: parseTimestamp of lrc.js and srt.js on one time code            *)
(***************************************************************************)
\* The fractional groups tried: one, two, three, four and five digits.
Fractions ==
  {<<53>>, <<48>>, <<48, 53>>, <<53, 48>>, <<49, 50, 51>>, <<48, 48, 55>>,
   <<49, 50, 51, 52>>, <<57, 57, 57, 57, 57>>}

\* A number below 100 written with two digits.
TwoDigits(n) == <<48 + (n \div 10), 48 + (n % 10)>>

\* "mm:ss.f" or "mm:ss:f"
LrcStamp(mi, se, sep, frac) ==
  TwoDigits(mi) \o <<58>> \o TwoDigits(se) \o <<sep>> \o frac

\* "hh:mm:ss,f" or "hh:mm:ss.f"
SrtStamp(ho, mi, se, sep, frac) ==
  TwoDigits(ho) \o <<58>> \o TwoDigits(mi) \o <<58>> \o TwoDigits(se)
    \o <<sep>> \o frac

Stamp(parser, ho, mi, se, frac, text) ==
  [parser |-> parser, hours |-> ho, minutes |-> mi, seconds |-> se,
   frac |-> frac, text |-> text]

ZInit ==
  /\ \E mi \in {0, 3, 12} : \E se \in {0, 7, 59} : \E frac \in Fractions :
       \/ \E sep \in {46, 58} :
            tsIn = Stamp("lrc", 0, mi, se, frac, LrcStamp(mi, se, sep, frac))
       \/ \E sep \in {44, 46} : \E ho \in {0, 1} :
            tsIn = Stamp("srt", ho, mi, se, frac, SrtStamp(ho, mi, se, sep, frac))
  /\ tsOut = [done |-> FALSE, time |-> NoTime]

ZIdle ==
  /\ tsIn = Stamp("none", 0, 0, 0, <<>>, <<>>)
  /\ tsOut = [done |-> FALSE, time |-> NoTime]

Stamped(time) ==
  /\ ~tsOut.done
  /\ tsOut' = [done |-> TRUE, time |-> time]
  /\ UNCHANGED tsIn

\* lrc.js parseTimestamp(ts)
StampLrc ==
  /\ tsIn.parser = "lrc"
  /\ Stamped(lrcParseTimestamp(tsIn.text))

\* srt.js parseTimestamp(ts)
StampSrt ==
  /\ tsIn.parser = "srt"
  /\ Stamped(srtParseTimestamp(tsIn.text))

ZNext ==
  \/ StampLrc /\ OnlyStamps
  \/ StampSrt /\ OnlyStamps

(***************************************************************************)
(* Part XI: getLibrary, the Library singleton                              *)
(*                                                                         *)
(* Each caller awaits getLibrary(libraryPath) once; the calls overlap as   *)
(* the event loop lets them: a call runs up to its first await.            *)
(***************************************************************************)
MaxCallers == 3      \* callers of getLibrary in one behaviour

Callers == 1..MaxCallers

\* The Index file: missing, a JSON object with these keys, or not JSON.
Invalid == [kind |-> "invalid"]
DiskChoices == {Absent, File({}), File({"k1"}), File({"k1", "k2"}), Invalid}

NotHanded == [kind |-> "none"]

\* The Library a caller holds, as it is at the moment it is returned.
Library(isLoaded, keys) == [kind |-> "library", loaded |-> isLoaded, keys |-> keys]

\* readJsonSafe(filePath, {}): the parsed file, {} for ENOENT
readJsonSafe(f) == IF f = Absent THEN {} ELSE f.data

\* getLibrary with instance = null: new Library(libraryPath) is assigned to
\* instance, then load() is awaited.
GetLibraryNew(c) ==
  /\ gpc[c] = "idle"
  /\ ~instance
  /\ instance' = TRUE
  /\ loaded' = FALSE
  /\ held' = {}
  /\ gpc' = [gpc EXCEPT ![c] = "load"]
  /\ UNCHANGED <<disk, handed>>

\* getLibrary with instance set: `return instance`
GetLibrary(c) ==
  /\ gpc[c] = "idle"
  /\ instance
  /\ gpc' = [gpc EXCEPT ![c] = "done"]
  /\ handed' = [handed EXCEPT ![c] = Library(loaded, held)]
  /\ UNCHANGED <<instance, loaded, held, disk>>

\* Library.load resolves: this.index is what readJsonSafe returned,
\* this.loaded = true, and getLibrary returns the instance.
LibraryLoaded(c) ==
  /\ gpc[c] = "load"
  /\ disk # Invalid
  /\ held' = readJsonSafe(disk)
  /\ loaded' = TRUE
  /\ gpc' = [gpc EXCEPT ![c] = "done"]
  /\ handed' = [handed EXCEPT ![c] = Library(TRUE, readJsonSafe(disk))]
  /\ UNCHANGED <<instance, disk>>

\* readJsonSafe rethrows (JSON.parse failed, or an error other than ENOENT):
\* load() and getLibrary reject; instance stays assigned.
LibraryLoadFails(c) ==
  /\ gpc[c] = "load"
  /\ disk = Invalid
  /\ gpc' = [gpc EXCEPT ![c] = "rejected"]
  /\ UNCHANGED <<instance, loaded, held, disk, handed>>

GInit ==
  /\ instance = FALSE
  /\ loaded = FALSE
  /\ held = {}
  /\ disk \in DiskChoices
  /\ gpc = [c \in Callers |-> "idle"]
  /\ handed = [c \in Callers |-> NotHanded]

GIdle ==
  /\ instance = FALSE
  /\ loaded = FALSE
  /\ held = {}
  /\ disk = Absent
  /\ gpc = [c \in Callers |-> "done"]
  /\ handed = [c \in Callers |-> NotHanded]

GNext ==
  \/ \E c \in Callers : GetLibraryNew(c) /\ OnlySingleton
  \/ \E c \in Callers : GetLibrary(c) /\ OnlySingleton
  \/ \E c \in Callers : LibraryLoaded(c) /\ OnlySingleton
  \/ \E c \in Callers : LibraryLoadFails(c) /\ OnlySingleton

(***************************************************************************)
(* Part XII: CoverProvider.getCover and its map of tasks in flight         *)
(*                                                                         *)
(* A task is named by the call that created it.                            *)
(***************************************************************************)
MaxGetters == 3      \* calls of getCover in one behaviour

Getters == 1..MaxGetters

CoverFiles == {"a.jpg", "b.jpg"}

NoTask == 0          \* this._inFlight has no entry for the filename

Running == {"running", "saved"}
Ended == {"url", "null", "error"}

\* this._inFlight.has(filename)
HasTaskMutant(f) == FALSE
HasTask(f) == inFlight[f] # NoTask

\* getCover is called: filename is computed, _fileExists awaited
GetCover(c, f) ==
  /\ cpc[c] = "idle"
  /\ \A d \in Getters : d < c => cpc[d] # "idle"
  /\ cpc' = [cpc EXCEPT ![c] = "stat"]
  /\ cfile' = [cfile EXCEPT ![c] = f]
  /\ along' = [along EXCEPT ![c] =
                 {d \in Getters : cpc[d] \notin {"idle", "done"} /\ cfile[d] = f}]
  /\ UNCHANGED <<task, joined, cres, inFlight, onDisk>>

\* _fileExists resolved true: return publicUrl
CoverOnDisk(c) ==
  /\ cpc[c] = "stat"
  /\ cfile[c] \in onDisk
  /\ cpc' = [cpc EXCEPT ![c] = "done"]
  /\ cres' = [cres EXCEPT ![c] = "url"]
  /\ UNCHANGED <<cfile, task, joined, inFlight, onDisk, along>>

\* _fileExists resolved false and the map has the filename: the task's
\* promise is awaited
JoinTask(c) ==
  /\ cpc[c] = "stat"
  /\ cfile[c] \notin onDisk
  /\ HasTask(cfile[c])
  /\ cpc' = [cpc EXCEPT ![c] = "join"]
  /\ joined' = [joined EXCEPT ![c] = inFlight[cfile[c]]]
  /\ UNCHANGED <<cfile, task, cres, inFlight, onDisk, along>>

\* _fileExists resolved false, no entry: the task is created and started,
\* this._inFlight.set(filename, task), and the task awaited
StartTask(c) ==
  /\ cpc[c] = "stat"
  /\ cfile[c] \notin onDisk
  /\ ~HasTask(cfile[c])
  /\ cpc' = [cpc EXCEPT ![c] = "own"]
  /\ task' = [task EXCEPT ![c] = "running"]
  /\ joined' = [joined EXCEPT ![c] = c]
  /\ inFlight' = [inFlight EXCEPT ![cfile[c]] = c]
  /\ UNCHANGED <<cfile, cres, onDisk, along>>

\* _downloadImageAtomic renamed the image to filePath
TaskDownloads(c) ==
  /\ task[c] = "running"
  /\ task' = [task EXCEPT ![c] = "saved"]
  /\ onDisk' = onDisk \cup {cfile[c]}
  /\ UNCHANGED <<cpc, cfile, joined, cres, inFlight, along>>

\* the task ends: publicUrl after a download; null when nothing was found;
\* an error when a request failed
TaskEnds(c, how) ==
  /\ task[c] \in Running
  /\ how = "url" <=> task[c] = "saved"
  /\ task' = [task EXCEPT ![c] = how]
  /\ UNCHANGED <<cpc, cfile, joined, cres, inFlight, onDisk, along>>

\* `return await task` of the call that created the task, with its finally:
\* this._inFlight.delete(filename)
OwnerReturns(c) ==
  /\ cpc[c] = "own"
  /\ task[c] \in Ended
  /\ inFlight' = [inFlight EXCEPT ![cfile[c]] = NoTask]
  /\ cpc' = [cpc EXCEPT ![c] = "done"]
  /\ cres' = [cres EXCEPT ![c] = task[c]]
  /\ UNCHANGED <<cfile, task, joined, onDisk, along>>

\* `return await this._inFlight.get(filename)` of a call that joined
JoinerReturns(c) ==
  /\ cpc[c] = "join"
  /\ task[joined[c]] \in Ended
  /\ cpc' = [cpc EXCEPT ![c] = "done"]
  /\ cres' = [cres EXCEPT ![c] = task[joined[c]]]
  /\ UNCHANGED <<cfile, task, joined, inFlight, onDisk, along>>

CInit ==
  /\ cpc = [c \in Getters |-> "idle"]
  /\ cfile = [c \in Getters |-> "a.jpg"]
  /\ task = [c \in Getters |-> "none"]
  /\ joined = [c \in Getters |-> c]
  /\ cres = [c \in Getters |-> "none"]
  /\ inFlight = [f \in CoverFiles |-> NoTask]
  /\ onDisk = {}
  /\ along = [c \in Getters |-> {}]

CIdle ==
  /\ cpc = [c \in Getters |-> "done"]
  /\ cfile = [c \in Getters |-> "a.jpg"]
  /\ task = [c \in Getters |-> "none"]
  /\ joined = [c \in Getters |-> c]
  /\ cres = [c \in Getters |-> "none"]
  /\ inFlight = [f \in CoverFiles |-> NoTask]
  /\ onDisk = {}
  /\ along = [c \in Getters |-> {}]

CNext ==
  \/ \E c \in Getters, f \in CoverFiles : GetCover(c, f) /\ OnlyCover
  \/ \E c \in Getters : CoverOnDisk(c) /\ OnlyCover
  \/ \E c \in Getters : JoinTask(c) /\ OnlyCover
  \/ \E c \in Getters : StartTask(c) /\ OnlyCover
  \/ \E c \in Getters : TaskDownloads(c) /\ OnlyCover
  \/ \E c \in Getters, how \in Ended : TaskEnds(c, how) /\ OnlyCover
  \/ \E c \in Getters : OwnerReturns(c) /\ OnlyCover
  \/ \E c \in Getters : JoinerReturns(c) /\ OnlyCover

(***************************************************************************)
(* Part XIII: CoverProvider._mbFetch, the spacing of MusicBrainz requests  *)
(*                                                                         *)
(* Time is Date.now() in ms and advances in steps of TickMs; a timer fires *)
(* when it is due.                                                         *)
(***************************************************************************)
MaxFetchers == 3     \* calls of _mbFetch in one behaviour
MaxTicks == 6        \* steps of the clock in one behaviour

MbGap == 1100        \* this._mbNextAt = Date.now() + 1100
TickMs == 550        \* one step of the clock

Fetchers == 1..MaxFetchers

NotYet == 0 - 1      \* no fetch issued yet

\* this._mbNextAt = Date.now() + 1100; return this._fetchRetry(url, ...),
\* which calls fetch before its first await
Reserve(c) ==
  /\ mbNextAt' = mclock + MbGap
  /\ issued' = [issued EXCEPT ![c] = mclock]
  /\ mpc' = [mpc EXCEPT ![c] = "fetch"]

\* _mbFetch is called: it sleeps until _mbNextAt when that is ahead, else it
\* goes on at once
MbFetch(c) ==
  /\ mpc[c] = "idle"
  /\ IF mclock < mbNextAt
       THEN /\ mpc' = [mpc EXCEPT ![c] = "sleep"]
            /\ wake' = [wake EXCEPT ![c] = mclock + (mbNextAt - mclock)]
            /\ UNCHANGED <<mbNextAt, issued>>
       ELSE /\ Reserve(c)
            /\ UNCHANGED wake
  /\ UNCHANGED mclock

\* the sleep of call c is over
MbWake(c) ==
  /\ mpc[c] = "sleep"
  /\ mclock >= wake[c]
  /\ Reserve(c)
  /\ UNCHANGED <<mclock, wake>>

\* time passes, unless a timer is due
MbTick ==
  /\ mclock < MaxTicks * TickMs
  /\ \A c \in Fetchers : mpc[c] = "sleep" => mclock < wake[c]
  /\ mclock' = mclock + TickMs
  /\ UNCHANGED <<mpc, mbNextAt, wake, issued>>

MInit ==
  /\ mpc = [c \in Fetchers |-> "idle"]
  /\ mclock = 0
  /\ mbNextAt = 0
  /\ wake = [c \in Fetchers |-> 0]
  /\ issued = [c \in Fetchers |-> NotYet]

MIdle ==
  /\ mpc = [c \in Fetchers |-> "fetch"]
  /\ mclock = 0
  /\ mbNextAt = 0
  /\ wake = [c \in Fetchers |-> 0]
  /\ issued = [c \in Fetchers |-> NotYet]

MNext ==
  \/ \E c \in Fetchers : MbFetch(c) /\ OnlyFetch
  \/ \E c \in Fetchers : MbWake(c) /\ OnlyFetch
  \/ MbTick /\ OnlyFetch

(***************************************************************************)
(* Specifications                                                          *)
(***************************************************************************)
vars == <<rvars, ovars, bvars, nvars, svars, pvars, hvars, tvars, zvars, gvars, cvars, mvars>>

\* No resolve() call is made and nothing is staged.
RIdle == RInit /\ rawFiles = {}

\* The resolver under overlapping resolve() calls.
Init == RInit /\ OIdle /\ BInit /\ NIdle /\ SIdle /\ PIdle /\ HIdle /\ TIdle /\ ZIdle /\ GIdle /\ CIdle /\ MIdle
Spec == Init /\ [][RNext]_vars

\* The decoder applied to one datagram.
ONext == Decode /\ OnlyDecoder
OscInit == RIdle /\ OInit /\ BInit /\ NIdle /\ SIdle /\ PIdle /\ HIdle /\ TIdle /\ ZIdle /\ GIdle /\ CIdle /\ MIdle
OscSpec == OscInit /\ [][ONext]_vars

\* The bridge under arriving datagrams and passing time.
BridgeInit == RIdle /\ OIdle /\ BInit /\ NIdle /\ SIdle /\ PIdle /\ HIdle /\ TIdle /\ ZIdle /\ GIdle /\ CIdle /\ MIdle
BridgeSpec == BridgeInit /\ [][BNext]_vars

\* The decoder applied to what sendOsc sends.
RoundTripInit == RIdle /\ SendInit /\ BInit /\ NIdle /\ SIdle /\ PIdle /\ HIdle /\ TIdle /\ ZIdle /\ GIdle /\ CIdle /\ MIdle
RoundTripSpec == RoundTripInit /\ [][ONext]_vars

\* normalize applied to one string, twice.
NormInit == RIdle /\ OIdle /\ BInit /\ NInit /\ SIdle /\ PIdle /\ HIdle /\ TIdle /\ ZIdle /\ GIdle /\ CIdle /\ MIdle
NormSpec == NormInit /\ [][NNext]_vars

\* Two persistences overlapping, file operation by file operation.
StorageInit == RIdle /\ OIdle /\ BInit /\ NIdle /\ SInit /\ PIdle /\ HIdle /\ TIdle /\ ZIdle /\ GIdle /\ CIdle /\ MIdle
StorageSpec == StorageInit /\ [][SNext]_vars

\* One resolve() call asking LrclibProvider.
ProviderInit == RIdle /\ OIdle /\ BInit /\ NIdle /\ SIdle /\ PInit /\ HIdle /\ TIdle /\ ZIdle /\ GIdle /\ CIdle /\ MIdle
ProviderSpec == ProviderInit /\ [][PNext]_vars

\* The same, with what the event loop guarantees: time passes, a due timer
\* fires, a continuation whose promise has settled runs.  Nothing obliges the
\* network to deliver anything.
ProviderLiveSpec ==
  /\ ProviderInit
  /\ [][PNext]_vars
  /\ WF_vars(TickStep)
  /\ WF_vars(TimerStep)
  /\ WF_vars(ReturnStep)
  /\ WF_vars(PersistStep)

\* The server handling trackChanged events.  Every promise the handler awaits
\* settles, and a continuation whose promise has settled runs.
ServerInit == RIdle /\ OIdle /\ BInit /\ NIdle /\ SIdle /\ PIdle /\ HInit /\ TIdle /\ ZIdle /\ GIdle /\ CIdle /\ MIdle
ServerLiveSpec == ServerInit /\ [][HNext]_vars /\ WF_vars(HNext)

\* One call of a parser, or of Store.save's parsing, on a text.
ParserInit == RIdle /\ OIdle /\ BInit /\ NIdle /\ SIdle /\ PIdle /\ HIdle /\ TInit /\ ZIdle /\ GIdle /\ CIdle /\ MIdle
ParserSpec == ParserInit /\ [][TNext]_vars

\* The resolver under overlapping resolve() calls that pass options
\* (scripts, tests), next to calls that pass none.
OptionsNext ==
  \/ \E c \in Calls, t \in Tracks, o \in OptionSets \ CallOptions :
       ResolveHit(c, t, o) /\ OnlyResolver
  \/ \E c \in Calls, t \in Tracks, o \in OptionSets \ CallOptions :
       ResolveWait(c, t, o) /\ OnlyResolver
  \/ \E c \in Calls, t \in Tracks, o \in OptionSets \ CallOptions :
       ResolveStart(c, t, o) /\ OnlyResolver
  \/ RNext
OptionsInit == RInit /\ OIdle /\ BInit /\ NIdle /\ SIdle /\ PIdle /\ HIdle /\ TIdle /\ ZIdle /\ GIdle /\ CIdle /\ MIdle
OptionsSpec == OptionsInit /\ [][OptionsNext]_vars

\* parseTimestamp applied to one time code.
StampInit == RIdle /\ OIdle /\ BInit /\ NIdle /\ SIdle /\ PIdle /\ HIdle /\ TIdle /\ ZInit /\ GIdle /\ CIdle /\ MIdle
StampSpec == StampInit /\ [][ZNext]_vars

SingletonInit == RIdle /\ OIdle /\ BInit /\ NIdle /\ SIdle /\ PIdle /\ HIdle /\ TIdle /\ ZIdle /\ GInit /\ CIdle /\ MIdle
SingletonSpec == SingletonInit /\ [][GNext]_vars

CoverInit == RIdle /\ OIdle /\ BInit /\ NIdle /\ SIdle /\ PIdle /\ HIdle /\ TIdle /\ ZIdle /\ GIdle /\ CInit /\ MIdle
CoverSpec == CoverInit /\ [][CNext]_vars

FetchInit == RIdle /\ OIdle /\ BInit /\ NIdle /\ SIdle /\ PIdle /\ HIdle /\ TIdle /\ ZIdle /\ GIdle /\ CIdle /\ MInit
FetchSpec == FetchInit /\ [][MNext]_vars

\* The bridge under what the event loop guarantees: time passes and a timer
\* that is due fires.  Nothing obliges a datagram to arrive.
BridgeLiveSpec ==
  /\ BridgeInit /\ [][BNext]_vars
  /\ WF_vars(Tick /\ OnlyBridge)
  /\ WF_vars(TimerFire /\ OnlyBridge)

(***************************************************************************)
(* Claims about the Resolver                                               *)
(***************************************************************************)
KeyOfCall(c) == KeyOf(track[c])

\* The call holds the token of its key: it runs _doResolve, or its promise
\* has settled and its finally block has not run yet.
Resolving(c) == InDoResolve(c) \/ pc[c] = "settled"

Scanned(c) == \E i \in DOMAIN log[c] : log[c][i].s = "file"
Queried(c) == \E i \in DOMAIN log[c] : log[c][i].s = "provider"

\* C1: for every key at most one resolution is in flight at any instant; among
\* the calls for one key that are active together at most one has scanned the
\* staged files and at most one has queried a provider, and a call that found
\* a token has accessed neither.
C1_OneResolutionPerKey ==
  /\ \A k \in Keys :
       Cardinality({c \in Calls : Resolving(c) /\ KeyOfCall(c) = k}) <= 1
  /\ \A c, d \in Calls :
       (c # d /\ Active(c) /\ Active(d) /\ KeyOfCall(c) = KeyOfCall(d))
         => /\ ~(Scanned(c) /\ Scanned(d))
            /\ ~(Queried(c) /\ Queried(d))
  /\ \A c \in Calls : pc[c] = "waiting" => ~Scanned(c) /\ ~Queried(c)

\* Two overlapping calls for one track: the first has scanned both extensions
\* and asked the first provider, the second waits on its promise.
C1_Witness ==
  \E c, d \in Calls :
    /\ c # d /\ track[c] = track[d]
    /\ pc[c] = "search" /\ pi[c] = 2 /\ Scanned(c)
    /\ pc[d] = "waiting" /\ waitOn[d] = c

C3_TokenReleased ==
  /\ (\A c \in Calls : ~Active(c)) => \A k \in Keys : pendingRequests[k] = NoPromise
  /\ \A k \in Keys : \A c \in pendingRequests[k] : Resolving(c) /\ KeyOfCall(c) = k
  /\ \A w \in Calls : (pc[w] = "waiting" /\ ~Active(waitOn[w])) => prom[waitOn[w]] # Pending

\* A resolution failed with an error; a later call for the same track has
\* started a new resolution of its own.
C3_Witness ==
  \E c, d \in Calls :
    /\ c # d /\ track[c] = track[d]
    /\ pc[c] = "done" /\ result[c] = ErrorResult
    /\ pc[d] = "access" /\ pendingRequests[KeyOfCall(d)] = {d}

\* The rank of a source in the order Index, .lrc, .srt, providers.
Rank(e) == IF e.s = "index" THEN 0
           ELSE IF e.s = "file" THEN e.n
           ELSE Len(Formats) + e.n

\* C4: resolve() consults Index, staged files (.lrc, then .srt) and providers
\* in this order and stops at the first hit: after a staged file was found no
\* provider is called, after a provider returned a result no later one is asked.
C4_FallbackOrder ==
  \A c \in Calls : \A i, j \in DOMAIN log[c] :
    i < j => /\ Rank(log[c][i]) < Rank(log[c][j])
             /\ ~log[c][i].hit

AllMissed(c) ==
  /\ Len(log[c]) = 1 + Len(Formats) + NumProviders
  /\ \A i \in DOMAIN log[c] : ~log[c][i].hit

\* C5: when Index, staged files and every provider miss, the resolution ends
\* with null, not with an error, and the Index still has no entry for the key;
\* and every null outcome, a later one for the same key too, comes from a full
\* run of the scan and the provider queries (no negative result is cached).
C5_NotFound ==
  \A c \in Calls :
    /\ (pc[c] = "settled" /\ AllMissed(c))
         => prom[c] = NullResult /\ index[KeyOfCall(c)] = NoEntry
    /\ (pc[c] = "settled" /\ prom[c] = NullResult)
         => /\ Len(log[c]) = 1 + Len(Formats) + NumProviders
            /\ \A i \in DOMAIN log[c] : Rank(log[c][i]) = i - 1

\* A call returned null; a later call for the same track ran the whole
\* pipeline again and found nothing either.
C5_Witness ==
  \E c, d \in Calls :
    /\ c # d /\ track[c] = track[d]
    /\ pc[c] = "done" /\ result[c] = NullResult
    /\ pc[d] = "settled" /\ AllMissed(d) /\ prom[d] = NullResult

\* What call c's resolve() ends with, once that is known.
Outcome(c) ==
  IF pc[c] = "settled" THEN prom[c]
  ELSE IF pc[c] = "done" THEN result[c]
  ELSE Pending

\* C14: a call during whose resolution a write of the raw file, of the JSON
\* document or of the Index file was rejected ends with an error, whether
\* the hit came from a staged file or from a provider.
C14_PersistenceErrorPropagated ==
  \A c \in failed : Outcome(c) \in {Pending, ErrorResult}

\* C18: overlapping calls for different keys do not interfere: when no file
\* operation is made to fail from outside, no call ends with an error.
C18_KeysIndependent ==
  faults = 0 => \A c \in Calls : Outcome(c) # ErrorResult

(***************************************************************************)
(* Claims about the LinkBridge (under BridgeSpec)                          *)
(***************************************************************************)
StatePair == Pair(bridge.artist, bridge.title)
TrackChanges == {i \in DOMAIN out : out[i].type = "trackChanged"}

\* C6: from a confirmed track, when the artist and the title of a new track
\* arrive less than the debounce delay apart, in either order, and no other
\* update follows, exactly one trackChanged is emitted and it carries the new
\* artist with the new title: never more than one event, never an event
\* that mixes an old field with a new one, and one event once the timer is
\* no longer pending.
C6_CoalescedUpdate ==
  burst.phase = "two" =>
    /\ burst.emits <= 1
    /\ burst.emits = 1 => lastEvent = StatePair
    /\ ~bridge.armed => burst.emits = 1

\* C7: a trackChanged is emitted only for a key that differs from the last
\* confirmed key, it never carries the pair of the event before it, handling
\* a datagram emits no trackChanged by itself, and a timer that fires when
\* the state's key is the confirmed key again does nothing.
C7_NoRepeat ==
  /\ lastFire.kind = "emit" =>
       /\ lastFire.key # lastFire.keyBefore
       /\ lastEvent # lastFire.before
       /\ bridge.lastTrackKey = lastFire.key
  /\ (lastFire.kind # "none" /\ lastFire.key = lastFire.keyBefore) =>
       /\ lastFire.kind = "noop"
       /\ out = <<>>
       /\ bridge.lastTrackKey = lastFire.keyBefore
  /\ lastIn.received => TrackChanges = {}

\* A stale timer fired after the state returned to the confirmed pair.
C7_Witness ==
  /\ lastFire.kind = "noop"
  /\ lastFire.key = lastFire.keyBefore
  /\ Confirmed(bridge, lastEvent)

\* C8: every trackChanged event carries a non-empty artist and a non-empty
\* title, and they are the artist and title of the state at the emission.
C8_EventMatchesState ==
  \A i \in TrackChanges :
    /\ out[i].value = StatePair
    /\ Truthy(out[i].value.artist) /\ out[i].value.artist # EmptyString
    /\ Truthy(out[i].value.title) /\ out[i].value.title # EmptyString

\* A second trackChanged was emitted.
C8_Witness == TrackChanges # {} /\ lastFire.before # NoEvent

\* The layout of a message on the wire (0-based offsets).
TagsNul(m) == Ceil4(Len(m.address) + 1) + 1 + Len(m.tags)
ArgsAt(m) == Ceil4(TagsNul(m) + 1)

\* A datagram that lost bytes at its end: it has a wrong length, or lacks a
\* terminator, or ends before an argument its type tags announce.
Malformed(x) == x.cut < Len(Encode(x.msg))

\* The malformed datagrams the decoder or the handler rejects: the address or
\* the type-tag string is missing or lacks its terminator, or the buffer ends
\* before the end of an announced number or before the first byte of an
\* announced string.
Rejected(x) ==
  \/ x.cut <= TagsNul(x.msg)
  \/ /\ Len(x.msg.tags) > 0
     /\ \/ x.msg.tags[1] \in {TagF, TagI} /\ x.cut < ArgsAt(x.msg) + 4
        \/ x.msg.tags[1] = TagS /\ x.cut <= ArgsAt(x.msg)

Dropped == ~lastIn.changed /\ ~lastIn.escaped

NumberType(address) ==
  IF address = AddrTime THEN "time"
  ELSE IF address = AddrBpm THEN "bpm"
  ELSE IF address = AddrBeat THEN "beat"
  ELSE "none"

FieldOf(b, type) ==
  IF type = "time" THEN b.time ELSE IF type = "bpm" THEN b.bpm ELSE b.beat

NumberEvents == {i \in DOMAIN out : out[i].type \in {"time", "bpm", "beat"}}

\* The last step handled a whole datagram of a number address with a number.
NumberReceived ==
  /\ lastIn.received
  /\ Complete(BridgeInputs[lastIn.d])
  /\ NumberType(BridgeInputs[lastIn.d].msg.address) # "none"
  /\ Len(BridgeInputs[lastIn.d].msg.args) > 0
  /\ IsNumber(BridgeInputs[lastIn.d].msg.args[1])

\* C12: a time, bpm or beat datagram with a number sets its field and emits
\* exactly one event of its type with that number within its own step, also
\* when the number equals the field's value; no other step emits such an
\* event, so the emitted values are the received values in arrival order.
C12_NumberEvents ==
  /\ NumberReceived =>
       LET m == BridgeInputs[lastIn.d].msg
           type == NumberType(m.address)
       IN /\ out = <<Event(type, Fround(m.args[1]))>>
          /\ FieldOf(bridge, type) = Fround(m.args[1])
  /\ ~NumberReceived => NumberEvents = {}

\* A time datagram arrived that repeats the value of the one before it.
C12_Witness ==
  /\ NumberReceived
  /\ BridgeInputs[lastIn.d].msg = TimeMsg
  /\ lastIn.same
  /\ out = <<Event("time", F128)>>

(***************************************************************************)
(* Claims about parseOscMessage (under OscSpec)                            *)
(***************************************************************************)
UnknownBeforeKnown(tags) ==
  \E i, j \in DOMAIN tags : i < j /\ tags[i] \notin KnownTags /\ tags[j] \in KnownTags

\* C10: an unknown type tag is skipped without consuming bytes and without
\* an argument: the decoded message has one argument per f, i or s tag, and
\* the arguments are those the sender wrote one after the other, with no
\* bytes for the unknown tags.
C10_UnknownTagSkipped ==
  (oscOut # NotDecoded /\ Complete(oscIn)) =>
    /\ oscOut.kind = "msg"
    /\ oscOut.address = oscIn.msg.address
    /\ Len(oscOut.args) = Cardinality({i \in DOMAIN oscIn.msg.tags :
                                         oscIn.msg.tags[i] \in KnownTags})
    /\ oscOut.args = oscIn.msg.args

\* A message with an unknown tag before a tag with data was decoded.
C10_Witness ==
  /\ oscOut # NotDecoded
  /\ Complete(oscIn)
  /\ UnknownBeforeKnown(oscIn.msg.tags)
  /\ Len(oscOut.args) >= 2

(***************************************************************************)
(* Claims about encoder and decoder (under RoundTripSpec)                  *)
(***************************************************************************)
NulFree(chars) == \A i \in DOMAIN chars : chars[i] # NUL
NulFreeMsg(m) ==
  /\ NulFree(m.address)
  /\ \A i \in DOMAIN m.args : m.args[i].t = "s" => NulFree(m.args[i].v)

\* C11 as stated: for every address and every argument list over f and s,
\* decoding the encoded message returns the address and the arguments.
C11_RoundTrip_Original ==
  oscOut # NotDecoded =>
    /\ oscOut.kind = "msg"
    /\ oscOut.address = oscIn.msg.address
    /\ oscOut.args = oscIn.msg.args

\* C11: for every address and every argument list over f and s whose strings
\* hold no NUL character, decoding the encoded message returns the address
\* and the arguments in order, each number as the float32 it was rounded to.
C11_RoundTrip ==
  (oscOut # NotDecoded /\ NulFreeMsg(oscIn.msg)) =>
    /\ oscOut.kind = "msg"
    /\ oscOut.address = oscIn.msg.address
    /\ oscOut.args = [i \in DOMAIN oscIn.msg.args |-> Fround(oscIn.msg.args[i])]

\* A message with a string and then a number that is no float32 was decoded.
C11_Witness ==
  /\ oscOut # NotDecoded
  /\ NulFreeMsg(oscIn.msg)
  /\ \E i, j \in DOMAIN oscIn.msg.args :
       /\ i < j
       /\ oscIn.msg.args[i].t = "s" /\ oscIn.msg.args[i].v # <<>>
       /\ oscIn.msg.args[j] = Tenth

(***************************************************************************)
(* Claims about normalize (under NormSpec)                                 *)
(***************************************************************************)
\* C13: normalize is idempotent: normalize applied to its own result
\* returns that result, and makeKey of a normalized artist and title is
\* the key of the unnormalized ones.
C13_Idempotent ==
  Len(normOut) = 2 =>
    /\ normOut[2] = normOut[1]
    /\ makeKey(normOut[1], normOut[1]) = makeKey(normIn, normIn)

(***************************************************************************)
(* Claims about the files (under StorageSpec)                              *)
(***************************************************************************)
Intact(f) == f.kind \in {"absent", "file"}

\* C16: no reader of the raw file or of the derived JSON document of a track
\* ever finds a partially written file at the final path.
C16_SaveAtomic ==
  \A w \in Savers : Intact(files[RawPath(w)]) /\ Intact(files[JsonPath(w)])

\* C17: the file at the index path is absent or the complete serialization of
\* a state the in-memory Index has been in, also while two Library.add calls
\* for different keys overlap.
C17_IndexAtomic ==
  /\ Intact(files[LibraryPath])
  /\ files[LibraryPath].kind = "file" => files[LibraryPath].data \subseteq libIndex

\* Every Library.add has returned, none of them with an error.
AllAdded == \A w \in Savers : spc[w] = "done"

\* C35: once all overlapping Library.add calls have completed without error,
\* the Index file is the serialization of the in-memory Index and holds every
\* added entry; an earlier save leaves no older snapshot behind.
C35_IndexFileCurrent ==
  AllAdded => /\ files[LibraryPath] = File(libIndex)
              /\ libIndex = Savers

(***************************************************************************)
(* Claims about LrclibProvider (under ProviderSpec / ProviderLiveSpec)     *)
(***************************************************************************)
ProviderFailures == {"timeout", "transport", "body"}

\* C15: when the last remote call of a search timed out or failed in
\* transport, search returns null, it does not reject, and resolve() reports
\* not-found instead of failing.
C15_FailureIsNoResult ==
  (lastFail \in ProviderFailures /\ ret # Pending) =>
     /\ ret = NullResult
     /\ resolved \in {Pending, NullResult}

C15_Witness ==
  /\ lastFail = "timeout"
  /\ ppc = "done"
  /\ resolved = NullResult
  /\ ~token

\* C20: every resolve() call eventually completes and its token is released,
\* because no remote call outlives the timeout budget.
C20_ResolveCompletes == <>(resolved # Pending /\ ~token)

(***************************************************************************)
(* Claims about the server (under ServerLiveSpec)                          *)
(***************************************************************************)
Failed(e) == hfail[e] # "none"

Newer(e) == \E d \in Events : d > e /\ hpc[d] # "idle"

Surfaced(e) ==
  /\ Message(e, "lyrics", "not_found") \in sent
  /\ lyricsStatus # "loading" \/ Newer(e)

\* C19: when the resolution started by a trackChanged event fails (resolve()
\* rejected, or the document could not be loaded), the viewers are eventually
\* sent not_found for it and lyricsStatus leaves 'loading' (unless a newer
\* event has set it again).
C19_FailureSurfaces == \A e \in Events : Failed(e) ~> Surfaced(e)

\* The event of the current track: the last trackChanged handled.
Started == {e \in Events : hpc[e] # "idle"}

IsCurrent(e) == e \in Started /\ \A d \in Started : d <= e

\* The step stores the document of event e in currentState.lyrics and
\* broadcasts it with status 'found'.
StoresFound(e) ==
  /\ lyrics' = e
  /\ Message(e, "lyrics", "found") \in sent' \ sent

\* C34: the lyrics in the server's state and those last broadcast belong to
\* the current track: the late result of an older event is neither stored in
\* currentState.lyrics nor broadcast as 'found' while a newer track is current.
C34_LyricsOfCurrentTrack ==
  /\ [][\A e \in Events : StoresFound(e) => IsCurrent(e)]_vars
  /\ [](lyrics # NoLyrics => IsCurrent(lyrics))


(***************************************************************************)
(* Claims about the timed-text parsers (ParserSpec)                        *)
(***************************************************************************)
\* The call that has returned is a direct call of lrc.parse / srt.parse /
\* Store.save.
ParseDone(caller) == docOut.done /\ docIn.caller = caller

\* The [length:mm:ss] directive of the metadata in ms, NoDuration for none.
LengthDirective(meta) == TrackDuration(NoDuration, meta)

\* What the last line of ls should end at, for the hint and the metadata.
ExpectedTail(ls, hint, meta) ==
  IF hint # NoDuration THEN hint
  ELSE IF LengthDirective(meta) # NoDuration THEN LengthDirective(meta)
  ELSE ls[Len(ls)].time + 30000

\* ls is in ascending order of time and each line but the last ends where
\* the next begins.
Chained(ls) ==
  \A i \in 1..(Len(ls) - 1) :
    ls[i].time <= ls[i + 1].time /\ ls[i].endTime = ls[i + 1].time

\* C21: before offset correction the lines lrc.parse returns are sorted
\* ascending by time, every line but the last ends at the time of the next
\* one, and the last line ends at the caller's duration if one is given, else
\* at the length directive if there is one, else 30 s after its time.
C21_EndTimeInference ==
  ParseDone("lrc") =>
    /\ Chained(docOut.doc.uncorrected)
    /\ docOut.doc.uncorrected # <<>> =>
         docOut.doc.uncorrected[Len(docOut.doc.uncorrected)].endTime
           = ExpectedTail(docOut.doc.uncorrected, docIn.duration, docOut.doc.meta)

\* "[00:01.00]Hello" and "[00:03.50]World" with no duration: 3.5 and 33.5
C21_Witness ==
  /\ ParseDone("lrc")
  /\ docIn.content = LrcText(<<1, 2>>, LF)
  /\ docIn.duration = NoDuration
  /\ [i \in 1..2 |-> docOut.doc.uncorrected[i].endTime] = <<3500, 33500>>

\* C22: when Store.save is given a duration, the document it hands to
\* writeJsonAtomic has a last line ending (before offset correction) at that
\* duration, and a duration field equal to it.
C22_PersistedTail ==
  (ParseDone("store") /\ docIn.duration # NoDuration
     /\ docOut.doc.uncorrected # <<>>) =>
    /\ docOut.doc.uncorrected[Len(docOut.doc.uncorrected)].endTime = docIn.duration
    /\ docOut.doc.duration = docIn.duration

\* The offset directive of the metadata as a number of ms, NaN if it is
\* absent or not numeric.
OffsetDirective(meta) == parseInt(MetaGet(meta, KeyOffset))

AtLeastZero(x) == IF x > 0 THEN x ELSE 0

\* C23: when the metadata holds a numeric offset directive of m ms, every
\* line lrc.parse returns has time and endTime equal to max(0, uncorrected
\* value + m); no time or endTime is negative.
C23_OffsetCorrection ==
  (ParseDone("lrc") /\ OffsetDirective(docOut.doc.meta) # NaN) =>
    \A i \in 1..Len(docOut.doc.lines) :
      /\ docOut.doc.lines[i].time
           = AtLeastZero(docOut.doc.uncorrected[i].time
                         + OffsetDirective(docOut.doc.meta))
      /\ docOut.doc.lines[i].endTime
           = AtLeastZero(docOut.doc.uncorrected[i].endTime
                         + OffsetDirective(docOut.doc.meta))
      /\ docOut.doc.lines[i].time >= 0
      /\ docOut.doc.lines[i].endTime >= 0

\* "[offset:+500]" and a line at 2.0 s: the line is returned at 2.5 s
C23_Witness ==
  /\ ParseDone("lrc")
  /\ OffsetDirective(docOut.doc.meta) = 500
  /\ \E i \in 1..Len(docOut.doc.lines) :
       /\ docOut.doc.uncorrected[i].time = 2000
       /\ docOut.doc.lines[i].time = 2500

\* The blocks of an SRT text, each as its lines.
BlocksOf(content) ==
  [k \in 1..Len(SplitBlocks(Trim(content))) |->
     SplitLines(SplitBlocks(Trim(content))[k])]

\* The first line of a block that holds "-->", 0 for none.
RangeLine(L) ==
  IF \E i \in 1..Len(L) : FirstArrow(L[i], 1) # 0
    THEN MinOf({i \in 1..Len(L) : FirstArrow(L[i], 1) # 0})
    ELSE 0

\* The lines of the block after line i, joined by single spaces.
Following(L, i) == JoinWith(SubSeq(L, i + 1, Len(L)), <<32>>)

\* What a block yields, its text being text: one line when the block has a
\* range whose two sides parse and text is not empty, nothing otherwise.
Yield(L, text) ==
  IF /\ RangeLine(L) # 0
     /\ srtParseTimestamp(ArrowSplit(L[RangeLine(L)])[1]) # NoTime
     /\ srtParseTimestamp(ArrowSplit(L[RangeLine(L)])[2]) # NoTime
     /\ text # <<>>
    THEN {[time |-> srtParseTimestamp(ArrowSplit(L[RangeLine(L)])[1]),
           endTime |-> srtParseTimestamp(ArrowSplit(L[RangeLine(L)])[2]),
           text |-> text]}
    ELSE {}

Ascending(ls) == \A i \in 1..(Len(ls) - 1) : ls[i].time <= ls[i + 1].time

\* The text of block L: the lines after the range joined by single spaces,
\* trimmed of surrounding white space or not.
TextOf(L, trimmed) ==
  IF trimmed THEN Trim(Following(L, RangeLine(L))) ELSE Following(L, RangeLine(L))

\* ls holds each line as many times as there are blocks that yield it.
SameLines(ls, B, trimmed) ==
  \A x \in {ls[i] : i \in 1..Len(ls)}
        \cup UNION {Yield(B[k], TextOf(B[k], trimmed)) : k \in 1..Len(B)} :
    Cardinality({i \in 1..Len(ls) : ls[i] = x})
      = Cardinality({k \in 1..Len(B) : x \in Yield(B[k], TextOf(B[k], trimmed))})

\* C24 as stated: the text of the line a block yields is the lines after the
\* range joined by single spaces.
C24_BlocksAsStated ==
  ParseDone("srt") =>
    /\ SameLines(docOut.doc.lines, BlocksOf(docIn.content), FALSE)
    /\ Ascending(docOut.doc.lines)

\* C24: each block of an SRT text with a "start --> end" line whose two sides
\* parse and with following text that is not blank yields exactly one line:
\* its time is the start, its endTime the end of the range, its text the
\* following lines joined by single spaces and trimmed of surrounding white
\* space.  Every other block yields nothing, and the lines are in ascending
\* order of time.
C24_Blocks ==
  ParseDone("srt") =>
    /\ SameLines(docOut.doc.lines, BlocksOf(docIn.content), TRUE)
    /\ Ascending(docOut.doc.lines)

\* "1\n00:00:01,000 --> 00:00:03,000\nHello world" yields one line
\* {time: 1.0, endTime: 3.0, text: "Hello world"}; a block without following
\* text yields nothing
C24_Witness ==
  /\ ParseDone("srt")
  /\ docIn.content = SrtText(<<5, 1>>, LF)
  /\ docOut.doc.lines
       = <<[time |-> 1000, endTime |-> 3000,
            text |-> <<72, 101, 108, 108, 111, 32, 119, 111, 114, 108, 100>>]>>

\* C25: every line lrc.parse or srt.parse returns has time >= 0, endTime >=
\* time and a text that is not empty, and the lines are in ascending order of
\* time.
C25_TimedLines ==
  (ParseDone("lrc") \/ ParseDone("srt")) =>
    /\ \A i \in 1..Len(docOut.doc.lines) :
         /\ docOut.doc.lines[i].time >= 0
         /\ docOut.doc.lines[i].endTime >= docOut.doc.lines[i].time
         /\ docOut.doc.lines[i].text # <<>>
    /\ Ascending(docOut.doc.lines)

(***************************************************************************)
(* Claims about the Index and the resolve() options (Spec, OptionsSpec)    *)
(***************************************************************************)
\* No resolve() call for key k is under way.
Quiet(k) == \A c \in Calls : KeyOf(track[c]) = k => pc[c] \in {"idle", "done"}

\* The entry of key k, if there is one, comes from a resolution of k that
\* returned an entry.
FromSuccess(k) ==
  (index[k] # NoEntry /\ Quiet(k)) =>
    \E c \in Calls :
      pc[c] = "done" /\ KeyOf(track[c]) = k /\ result[c].kind = "entry"

\* A step keeps the entry of key k, or a resolution of k puts a whole new
\* entry in its place.
KeptOrReplaced(k) ==
  /\ index[k] # NoEntry => index'[k] # NoEntry
  /\ index'[k] # index[k] =>
       \E c \in Calls :
         /\ KeyOf(track[c]) = k
         /\ index'[k] = Entry(track[c], ProviderName(c), SaveFormat(c))

IndexKept == \A k \in Keys : KeptOrReplaced(k)

\* C26: an Index entry is never removed; it is created or changed only by a
\* successful resolution of its key, which replaces it wholesale; resolutions
\* of other keys, and resolutions that end in not-found, leave it as it was.
C26_IndexEntries ==
  /\ [](\A k \in Keys : FromSuccess(k))
  /\ [][IndexKept]_vars

Steps(c, kinds) == {i \in 1..Len(log[c]) : log[c][i].s \in kinds}

\* Call c is inside store.save or library.add.
Persisting(c) ==
  pc[c] \in {"saveRaw", "saveJson", "libMkdir", "libWrite", "libRename"}

\* With skipLocal, call c neither looks the key up in the Index nor scans the
\* staged files.
LocalSkipped(c) ==
  opts[c].skipLocal =>
    /\ pc[c] \notin {"access", "read"}
    /\ Steps(c, {"index", "file"}) = {}
    /\ Persisting(c) => src[c] = "provider"

\* With skipProviders, call c queries no provider.
ProvidersSkipped(c) ==
  opts[c].skipProviders =>
    /\ pc[c] # "search"
    /\ Steps(c, {"provider"}) = {}
    /\ Persisting(c) => src[c] = "local"

\* Call c touches neither files nor network nor the Index and ends in
\* not-found.
NothingDone(c) ==
  /\ pc[c] \in {"idle", "waiting", "settled", "done"}
  /\ pc[c] = "settled" => prom[c] = NullResult
  /\ pc[c] = "done" => result[c] = NullResult

BothSkipped(c) == opts[c].skipLocal /\ opts[c].skipProviders

\* Call c returned the promise of a resolution that was in flight for its key.
Joined(c) == waitOn[c] # c

\* C30 as stated: with both options set resolve() returns not-found, whatever
\* else is going on.
C30_OptionsAsStated ==
  \A c \in Calls :
    /\ LocalSkipped(c)
    /\ ProvidersSkipped(c)
    /\ BothSkipped(c) => NothingDone(c)

\* C30: with skipLocal a resolve() call performs neither the Index lookup nor
\* the scan of the staged files, with skipProviders it queries no provider,
\* and with both set it returns not-found without any file or network access
\* and without changing the Index, unless a resolution of its key is in
\* flight, whose outcome it then returns.
C30_Options ==
  \A c \in Calls :
    /\ LocalSkipped(c)
    /\ ProvidersSkipped(c)
    /\ (BothSkipped(c) /\ ~Joined(c)) => NothingDone(c)

\* a call with both options set has returned not-found although the Index
\* holds an entry for its key
C30_Witness ==
  \E c \in Calls :
    /\ BothSkipped(c) /\ ~Joined(c)
    /\ pc[c] = "done" /\ result[c] = NullResult
    /\ Find(track[c]) # NoEntry

(***************************************************************************)
(* Claims about the debounce timer (BridgeSpec, BridgeLiveSpec)            *)
(***************************************************************************)
\* C27: a trackChanged event is emitted only when the debounce delay has
\* passed since the last accepted update of artist or title that left a key
\* other than the confirmed one; each such update cancels the pending timer
\* and arms a new one, so never more than one timer is pending.
C27_Debounced ==
  /\ lastFire.kind = "emit" => since = TicksPerDebounce
  /\ Len(debounce) <= 1
  /\ bridge.armed => debounce = <<bridge.left>>

\* an event was emitted by a timer that an update had re-armed
C27_Witness ==
  /\ lastFire.kind = "emit"
  /\ since = TicksPerDebounce
  /\ burst.phase = "two"

\* The pairs of a non-empty artist and a non-empty title the datagrams can
\* set.
BridgePairs ==
  {Pair(a, t) : a \in {NameA, NameAB}, t \in {NameC, NameBC, IntVal(7)}}

\* The last step was an accepted update of artist or title.
Updating == lastIn.received /\ Accepted(Parsed[lastIn.d])

\* BridgeState holds the pair p and no update of artist or title arrives.
Rests(p) == Pair(bridge.artist, bridge.title) = p /\ ~Updating

\* The pair p is the last confirmed pair: the last trackChanged event
\* carried it and lastTrackKey is its key.
LastConfirmed(p) ==
  lastEvent = p /\ bridge.lastTrackKey = TrackKey(p.artist, p.title)

\* C28: if after the last update of artist or title BridgeState holds a
\* non-empty artist and a non-empty title, a pair other than the last
\* confirmed one, then a trackChanged event carrying that pair is emitted and
\* the pair becomes the last confirmed pair.
C28_EventuallyConfirmed ==
  \A p \in BridgePairs : <>[]Rests(p) => <>[]LastConfirmed(p)

(***************************************************************************)
(* Claims about what a datagram leaves alone (BridgeSpec)                  *)
(***************************************************************************)
\* The step is the handling of datagram d, decoded as a message.
Handles(d) ==
  lastIn'.received /\ lastIn'.d = d /\ Parsed[d].kind = "msg"

\* The step leaves artist, title, the confirmed key and the timer alone.
TrackKept ==
  /\ bridge'.artist = bridge.artist /\ bridge'.title = bridge.title
  /\ bridge'.lastTrackKey = bridge.lastTrackKey
  /\ bridge'.armed = bridge.armed /\ bridge'.left = bridge.left
  /\ debounce' = debounce

\* The step changes at most the one field of BridgeState and emits at most
\* events of that name.
OnlyField(field) ==
  /\ TrackKept
  /\ field # "time" => bridge'.time = bridge.time
  /\ field # "bpm" => bridge'.bpm = bridge.bpm
  /\ field # "beat" => bridge'.beat = bridge.beat
  /\ \A i \in 1..Len(out') : out'[i].type = field

\* The one field a datagram with this address may set.
OwnField(address) ==
  IF address = AddrTime THEN "time"
  ELSE IF address = AddrBpm THEN "bpm"
  ELSE IF address = AddrBeat THEN "beat"
  ELSE "none"

FrameKept ==
  \A d \in 1..Len(BridgeInputs) :
    (Handles(d) /\ Parsed[d].address \notin {AddrTitle, AddrArtist}) =>
      OnlyField(OwnField(Parsed[d].address))

\* C31: a datagram with an unknown address changes no field of BridgeState
\* and emits no event; a /time/master, /bpm/master/current or /beat/master
\* datagram changes only its own field and never artist, title, the last
\* confirmed key or the pending debounce timer.
C31_Frame == [][FrameKept]_vars

\* a datagram with an unknown address was handled while the debounce timer
\* was running, and the timer runs on
C31_Witness ==
  /\ lastIn.received /\ Parsed[lastIn.d].kind = "msg"
  /\ Parsed[lastIn.d].address = AddrOther
  /\ bridge.armed /\ bridge.left < TicksPerDebounce
  /\ lastIn.same

(***************************************************************************)
(* Claims about the lines and time codes of the parsers (ParserSpec,       *)
(* StampSpec)                                                              *)
(***************************************************************************)
\* The leading time codes of input line L and the text after them.
Leading(L) == Timestamps(L, 1, <<>>)

\* How many times the input lines ls carry the text of x under the time of
\* x: pairs of a line and one of its leading time codes.
Carried(ls, x) ==
  Cardinality({ij \in (1..Len(ls)) \X (1..MaxStamps) :
                 /\ ij[2] <= Len(Leading(ls[ij[1]]).times)
                 /\ Leading(ls[ij[1]]).times[ij[2]] = x.time
                 /\ Trim(Leading(ls[ij[1]]).text) = x.text})

\* The times and texts a line of these input lines could yield.
Yields(ls) ==
  UNION {{[time |-> Leading(ls[i]).times[j], text |-> Trim(Leading(ls[i]).text)] :
            j \in 1..Len(Leading(ls[i]).times)} : i \in 1..Len(ls)}

TimeAndText(l) == [time |-> l.time, text |-> l.text]

\* C32: every input line of lrc.parse that begins with k >= 1 bracketed time
\* codes followed by text that is not blank produces exactly k output lines,
\* one per time code, each with that text; a line without a leading time code
\* or without text produces none.
C32_LinePerTimestamp ==
  ParseDone("lrc") =>
    \A x \in {TimeAndText(docOut.doc.uncorrected[i]) :
                i \in 1..Len(docOut.doc.uncorrected)}
             \cup {y \in Yields(SplitLines(docIn.content)) : y.text # <<>>} :
      Cardinality({i \in 1..Len(docOut.doc.uncorrected) :
                     TimeAndText(docOut.doc.uncorrected[i]) = x})
        = IF x.text = <<>> THEN 0 ELSE Carried(SplitLines(docIn.content), x)

\* The value of a digit string.
Digit(c) == c - 48

\* The fractional group as ms: padded with zeros or cut to three digits.
ThreeDigits(frac) ==
  IF Len(frac) = 1 THEN Digit(frac[1]) * 100
  ELSE IF Len(frac) = 2 THEN (Digit(frac[1]) * 10 + Digit(frac[2])) * 10
  ELSE Digit(frac[1]) * 100 + Digit(frac[2]) * 10 + Digit(frac[3])

\* C33: parseTimestamp takes the fractional group as milliseconds after
\* padding it with zeros or cutting it to three digits (one digit c is c*100
\* ms, two digits are *10 ms, more than three keep the first three); the time
\* is minutes*60 + seconds + ms/1000, plus hours*3600 in srt.js.
C33_Milliseconds ==
  tsOut.done =>
    tsOut.time = (tsIn.hours * 3600 + tsIn.minutes * 60 + tsIn.seconds) * 1000
                 + ThreeDigits(tsIn.frac)

\* "01:12:59,1234" in srt.js is 1 h 12 min 59.123 s
C33_Witness ==
  /\ tsOut.done /\ tsIn.parser = "srt"
  /\ tsIn.text = SrtStamp(1, 12, 59, 44, <<49, 50, 51, 52>>)
  /\ tsOut.time = 4379123

(***************************************************************************)
(* Claims about the Index after a failed resolution (Spec)                 *)
(***************************************************************************)
\* Call c has ended with an error.
EndedInError(c) == pc[c] = "done" /\ result[c] = ErrorResult

\* No call has returned an entry for key k: the Index, empty at the start,
\* held no entry of k before the calls that failed.
NoneReturned(k) ==
  \A c \in Calls : KeyOf(track[c]) = k => result[c].kind # "entry"

\* C36: when resolve() ends with an error, the in-memory Index holds no entry
\* it did not hold before the call, so that a later resolve() of the key is
\* not answered with an entry whose Index-file write failed.
C36_NoEntryAfterError ==
  \A c \in Calls :
    (EndedInError(c) /\ NoneReturned(KeyOf(track[c])) /\ Quiet(KeyOf(track[c])))
      => index[KeyOf(track[c])] = NoEntry


(***************************************************************************)
(* Claims about the options of overlapping calls (OptionsSpec)             *)
(***************************************************************************)
\* Call c waits for a resolution that is querying a provider.
AwaitsProvider(c) == pc[c] = "waiting" /\ pc[waitOn[c]] = "search"

\* Call c has returned the entry that a provider query of the resolution it
\* joined produced.
ReturnedProvider(c) ==
  /\ Joined(c) /\ pc[c] = "done"
  /\ result[c].kind = "entry" /\ result[c].provider # LocalName

C38_LoadedWhenHanded ==
  \A c \in Callers :
    handed[c] # NotHanded => handed[c].loaded

(***************************************************************************)
(* Claims about the cover tasks in flight (CoverSpec)                      *)
(***************************************************************************)
\* The tasks for filename f that have not ended.
TasksInFlight(f) == {c \in Getters : task[c] \in Running /\ cfile[c] = f}

\* At most one task per filename has not ended, and the map names it.
OneTask(f) ==
  /\ Cardinality(TasksInFlight(f)) <= 1
  /\ \A c \in TasksInFlight(f) : inFlight[f] = c

\* An entry of the map is a task that runs, or that has ended and whose
\* creator has not resumed yet: when the creator returns, the entry is gone.
EntryRemoved(f) ==
  HasTask(f) => /\ cfile[inFlight[f]] = f
                /\ cpc[inFlight[f]] = "own"

\* A call that awaited a task returns what the task ended with.
TaskResult(c) ==
  (cpc[c] = "done" /\ task[joined[c]] # "none") => cres[c] = task[joined[c]]

\* Calls for one filename whose executions overlapped return the same.
SameResult(c) ==
  \A d \in along[c] : (cpc[c] = "done" /\ cpc[d] = "done") => cres[c] = cres[d]

Spaced(c, d) ==
  (issued[c] # NotYet /\ issued[d] # NotYet) =>
    \/ issued[c] - issued[d] >= MbGap
    \/ issued[d] - issued[c] >= MbGap

\* C40: no two _mbFetch calls issue their fetch within 1100 ms of each other,
\* also when several calls run concurrently.
C40_RequestsSpaced ==
  \A c \in Fetchers : \A d \in Fetchers \ {c} : Spaced(c, d)
=============================================================================
